---------------------------- MODULE Spec2Model ----------------------------
(***************************************************************************)
(* A model of bunk: binary data encoded as pronounceable syllables.        *)
(*                                                                         *)
(* Text is a sequence of Unicode scalar values (a letter is its code       *)
(* point, "a" = 97), a byte is a number in 0..255, a u32 is the pair       *)
(* <<high 16 bits, low 16 bits>>, an Option is the empty sequence (None)   *)
(* or a one-element sequence (Some).                                       *)
(***************************************************************************)
EXTENDS Integers, Sequences, FiniteSets, TLC

VARIABLES
    pc,             \* where the caller is: "payload", "checksum", "encoded", "parse", "done"
    settings,       \* encode.rs Settings: word_len, checksum, decorate
    data,           \* the bytes handed to encode_mono, as far as its loop has read them
    sentence,       \* encode.rs Sentence: buffer, previous, word_len, max_word, decorate
    hash,           \* encode_mono's Fnv1a accumulator
    checksum_bytes, \* encode_mono's checksum_bytes; <<>> before the payload is done
    text,           \* the string handed to decode_mono
    orig,           \* the string as first produced, before anything was inserted or replaced
    edit,           \* what was done to orig: <<>>, or <<kind, position, what>>
    checksum,       \* decode_mono's checksum argument
    string,         \* decode_mono's cursor: the text not yet consumed
    buffer,         \* decode_mono's buffer of syllable indices
    result          \* decode_mono's return value; <<>> until it returns

vars == << pc, settings, data, sentence, hash, checksum_bytes, text, orig, edit,
           checksum, string, buffer, result >>

-----------------------------------------------------------------------------
(* Bounds of the model. *)

\* longest payload handed to encode
MaxData == 2
\* longest text typed in by hand, in characters
MaxText == 3
\* payload bytes already encoded where a long encode is taken up
LongRun == 254

-----------------------------------------------------------------------------
(* Machine arithmetic. *)

Byte == 0 .. 255

RECURSIVE Xor(_, _)
\* bitwise exclusive or of two naturals
Xor(a, b) ==
    IF a = 0 THEN b
    ELSE IF b = 0 THEN a
    ELSE (((a % 2) + (b % 2)) % 2) + 2 * Xor(a \div 2, b \div 2)

RECURSIVE PopCount(_)
\* the number of set bits of a natural
PopCount(n) == IF n = 0 THEN 0 ELSE (n % 2) + PopCount(n \div 2)

None == << >>
Some(x) == << x >>

-----------------------------------------------------------------------------
(* The static tables: static/syllables.txt, static/entropy.txt,            *)
(* static/translation.bin, static/dart_base.bin, static/dart_check.bin.    *)
(* The files are data produced offline; the tables below satisfy what the  *)
(* sources say of them: 256 distinct syllables of 1-4 lowercase letters,   *)
(* get(0) = "u", [0, 0, 0, 0] encodes to "trirori mulry" under the default *)
(* settings, "sive", "tive", "son" are syllables and "b", "siv" are not,   *)
(* "o", "us" and "ous" are syllables, the letter codes of "a" and "z" are  *)
(* 2 and 21, the root's base is 0 and its check is all ones below the MSB. *)

SYLLABLES ==
  <<
    <<117>>, <<102, 101, 115>>, <<99, 97>>, <<114, 105, 110>>,                 \*   0: u fes ca rin
    <<105, 114>>, <<110, 111, 115>>, <<108, 105>>, <<118, 105, 115>>,          \*   4: ir nos li vis
    <<122, 101>>, <<104, 101>>, <<106, 111, 110>>, <<98, 97>>,                 \*   8: ze he jon ba
    <<118, 117>>, <<99, 114, 97>>, <<103, 108, 117>>, <<116, 101, 110, 116>>,  \*  12: vu cra glu tent
    <<99, 117>>, <<99, 114, 111>>, <<118, 97, 115>>, <<102, 101, 114, 115>>,   \*  16: cu cro vas fers
    <<116, 97, 114>>, <<114, 121>>, <<110, 101>>, <<107, 117>>,                \*  20: tar ry ne ku
    <<109, 111, 114>>, <<102, 114, 105>>, <<103, 111>>, <<100, 105, 110>>,     \*  24: mor fri go din
    <<110, 105>>, <<118, 101>>, <<99, 101, 110, 116>>, <<110, 101, 105>>,      \*  28: ni ve cent nei
    <<102, 117, 110>>, <<108, 97>>, <<99, 111>>, <<102, 111, 110>>,            \*  32: fun la co fon
    <<98, 97, 118, 101>>, <<109, 97, 114>>, <<100, 97>>, <<100, 117>>,         \*  36: bave mar da du
    <<98, 111, 115>>, <<118, 111, 115>>, <<107, 117, 115>>, <<103, 111, 118, 101>>, \*  40: bos vos kus gove
    <<110, 117, 110>>, <<111>>, <<103, 101, 115>>, <<107, 111>>,               \*  44: nun o ges ko
    <<108, 117, 110>>, <<99, 111, 109>>, <<98, 108, 101>>, <<102, 111, 118, 101>>, \*  48: lun com ble fove
    <<100, 101, 118, 101>>, <<112, 101>>, <<112, 121>>, <<108, 97, 115>>,      \*  52: deve pe py las
    <<102, 111, 115>>, <<116, 105>>, <<110, 117>>, <<108, 117>>,               \*  56: fos ti nu lu
    <<112, 97>>, <<104, 105, 115>>, <<98, 105>>, <<111, 110>>,                 \*  60: pa his bi on
    <<115, 105, 118, 101>>, <<108, 111, 114>>, <<109, 111>>, <<115, 101>>,     \*  64: sive lor mo se
    <<116, 101, 108>>, <<114, 101>>, <<108, 111, 110>>, <<97, 115>>,           \*  68: tel re lon as
    <<115, 117>>, <<100, 108, 111>>, <<98, 105, 115>>, <<115, 117, 114>>,      \*  72: su dlo bis sur
    <<100, 101, 114>>, <<106, 111>>, <<112, 111>>, <<112, 101, 118, 101>>,     \*  76: der jo po peve
    <<117, 110>>, <<100, 101, 110, 116>>, <<116, 111, 114>>, <<102, 114, 101>>, \*  80: un dent tor fre
    <<102, 111>>, <<100, 101>>, <<100, 114, 111>>, <<109, 97, 115>>,           \*  84: fo de dro mas
    <<103, 117>>, <<104, 117>>, <<103, 117, 115>>, <<111, 115>>,               \*  88: gu hu gus os
    <<115, 101, 115>>, <<115, 111>>, <<117, 115>>, <<99, 111, 118, 101>>,      \*  92: ses so us cove
    <<121>>, <<111, 109>>, <<98, 117>>, <<105, 108>>,                          \*  96: y om bu il
    <<103, 111, 114>>, <<116, 114, 105>>, <<99, 117, 110>>, <<122, 97, 114>>,  \* 100: gor tri cun zar
    <<100, 114, 97>>, <<101>>, <<102, 117, 114>>, <<116, 97>>,                 \* 104: dra e fur ta
    <<116, 111, 115>>, <<102, 97, 110, 116>>, <<102, 105, 110>>, <<104, 97, 114>>, \* 108: tos fant fin har
    <<98, 117, 116>>, <<122, 117, 110>>, <<97, 116, 101>>, <<106, 117, 115>>,  \* 112: but zun ate jus
    <<97>>, <<102, 97, 115>>, <<116, 117, 114>>, <<112, 117>>,                 \* 116: a fas tur pu
    <<114, 97, 114>>, <<115, 111, 110>>, <<116, 97, 115>>, <<109, 97>>,        \* 120: rar son tas ma
    <<107, 97>>, <<98, 117, 110>>, <<101, 109>>, <<102, 101>>,                 \* 124: ka bun em fe
    <<106, 117, 114>>, <<98, 111>>, <<111, 117, 115>>, <<101, 115>>,           \* 128: jur bo ous es
    <<99, 105, 114>>, <<98, 101, 114>>, <<102, 111, 114>>, <<116, 97, 110, 116>>, \* 132: cir ber for tant
    <<100, 111, 114>>, <<112, 114, 111>>, <<114, 111>>, <<114, 111, 115>>,     \* 136: dor pro ro ros
    <<107, 111, 114>>, <<106, 105>>, <<104, 111, 115>>, <<107, 117, 110>>,     \* 140: kor ji hos kun
    <<98, 111, 114, 115>>, <<103, 101>>, <<107, 105>>, <<99, 101>>,            \* 144: bors ge ki ce
    <<102, 101, 110, 116>>, <<111, 108>>, <<110, 117, 115>>, <<103, 108, 101>>, \* 148: fent ol nus gle
    <<105>>, <<122, 97, 110>>, <<116, 114, 101>>, <<122, 117>>,                \* 152: i zan tre zu
    <<109, 101, 110>>, <<112, 101, 114>>, <<99, 105>>, <<112, 104, 111>>,      \* 156: men per ci pho
    <<106, 117>>, <<106, 101>>, <<115, 97, 108>>, <<116, 104, 101>>,           \* 160: ju je sal the
    <<103, 105>>, <<97, 117>>, <<109, 117, 115>>, <<115, 101, 114>>,           \* 164: gi au mus ser
    <<108, 101>>, <<98, 111, 110, 116>>, <<98, 111, 110>>, <<110, 97>>,        \* 168: le bont bon na
    <<116, 101>>, <<103, 97, 110, 116>>, <<97, 108>>, <<114, 105>>,            \* 172: te gant al ri
    <<101, 108>>, <<109, 105, 110>>, <<115, 105, 110>>, <<116, 105, 118, 101>>, \* 176: el min sin tive
    <<99, 101, 118, 101>>, <<118, 97>>, <<109, 105>>, <<114, 97>>,             \* 180: ceve va mi ra
    <<100, 105>>, <<122, 111>>, <<110, 111>>, <<118, 111>>,                    \* 184: di zo no vo
    <<104, 105, 114>>, <<97, 114>>, <<114, 117, 114>>, <<103, 97, 118, 101>>,  \* 188: hir ar rur gave
    <<103, 97>>, <<116, 101, 110>>, <<98, 101>>, <<111, 114>>,                 \* 192: ga ten be or
    <<116, 117>>, <<110, 97, 108>>, <<100, 114, 101>>, <<102, 117>>,           \* 196: tu nal dre fu
    <<105, 110>>, <<110, 101, 114>>, <<104, 111>>, <<102, 97>>,                \* 200: in ner ho fa
    <<114, 117>>, <<103, 111, 114, 115>>, <<116, 97, 118, 101>>, <<108, 117, 114>>, \* 204: ru gors tave lur
    <<115, 97>>, <<98, 114, 101>>, <<104, 111, 114>>, <<102, 114, 117>>,       \* 208: sa bre hor fru
    <<109, 117, 108>>, <<108, 111>>, <<115, 117, 110>>, <<102, 105>>,          \* 212: mul lo sun fi
    <<112, 111, 110, 116>>, <<97, 110>>, <<104, 97>>, <<100, 108, 105>>,       \* 216: pont an ha dli
    <<122, 97>>, <<109, 101>>, <<118, 101, 110>>, <<116, 111>>,                \* 220: za me ven to
    <<118, 105>>, <<122, 105>>, <<105, 115>>, <<101, 110>>,                    \* 224: vi zi is en
    <<114, 97, 115>>, <<112, 97, 114, 115>>, <<118, 97, 114>>, <<106, 97>>,    \* 228: ras pars var ja
    <<103, 101, 114>>, <<99, 97, 114, 115>>, <<122, 97, 115>>, <<98, 105, 114>>, \* 232: ger cars zas bir
    <<104, 105>>, <<112, 108, 97>>, <<105, 109>>, <<118, 117, 110>>,           \* 236: hi pla im vun
    <<110, 117, 114>>, <<117, 108>>, <<101, 114>>, <<107, 101>>,               \* 240: nur ul er ke
    <<104, 97, 110>>, <<100, 111>>, <<117, 109>>, <<116, 108, 117>>,           \* 244: han do um tlu
    <<117, 114>>, <<108, 97, 110>>, <<109, 117>>, <<97, 109>>,                 \* 248: ur lan mu am
    <<112, 105>>, <<98, 108, 97>>, <<99, 108, 105>>, <<112, 97, 110, 116>> >>  \* 252: pi bla cli pant

\* the entropy table of running_code
TABLE ==
  <<
    101, 138, 175, 212, 249, 30, 67, 104, 141, 178, 215, 252, 33, 70, 107, 144,
    181, 218, 255, 36, 73, 110, 147, 184, 221, 2, 39, 76, 113, 150, 187, 224,
    5, 42, 79, 116, 153, 190, 227, 8, 45, 82, 119, 156, 193, 230, 11, 48,
    85, 122, 159, 196, 233, 14, 51, 88, 125, 162, 199, 236, 17, 54, 91, 128,
    165, 202, 239, 20, 57, 94, 131, 168, 205, 242, 23, 60, 97, 134, 171, 208,
    245, 26, 63, 100, 137, 174, 211, 248, 29, 66, 103, 140, 177, 214, 251, 32,
    69, 106, 143, 180, 217, 254, 35, 72, 109, 146, 183, 220, 1, 38, 75, 112,
    149, 186, 223, 4, 41, 78, 115, 152, 189, 226, 7, 44, 81, 118, 155, 192,
    229, 10, 47, 84, 121, 158, 195, 232, 13, 50, 87, 124, 161, 198, 235, 16,
    53, 90, 127, 164, 201, 238, 19, 56, 93, 130, 167, 204, 241, 22, 59, 96,
    133, 170, 207, 244, 25, 62, 99, 136, 173, 210, 247, 28, 65, 102, 139, 176,
    213, 250, 31, 68, 105, 142, 179, 216, 253, 34, 71, 108, 145, 182, 219, 0,
    37, 74, 111, 148, 185, 222, 3, 40, 77, 114, 151, 188, 225, 6, 43, 80,
    117, 154, 191, 228, 9, 46, 83, 120, 157, 194, 231, 12, 49, 86, 123, 160,
    197, 234, 15, 52, 89, 126, 163, 200, 237, 18, 55, 92, 129, 166, 203, 240,
    21, 58, 95, 132, 169, 206, 243, 24, 61, 98, 135, 172, 209, 246, 27, 64 >>

\* letter - 'a' -> transition code of the trie
TRANSLATION ==
  <<
    2, 13, 15, 16, 1, 12, 17, 19, 8, 20, 22, 10, 14,
    5, 3, 18, 24, 4, 7, 9, 6, 11, 25, 26, 23, 21 >>

\* the double-array trie, each u32 as <<high 16 bits, low 16 bits>>
BASE ==
  <<
    <<0, 0>>, <<0, 112>>, <<0, 32>>, <<0, 280>>, <<0, 312>>, <<0, 256>>,
    <<0, 368>>, <<0, 320>>, <<0, 208>>, <<0, 352>>, <<0, 224>>, <<0, 367>>,
    <<0, 128>>, <<0, 48>>, <<0, 240>>, <<0, 80>>, <<0, 96>>, <<0, 160>>,
    <<0, 288>>, <<0, 176>>, <<0, 202>>, <<0, 394>>, <<0, 208>>, <<32768, 96>>,
    <<32768, 36>>, <<32768, 114>>, <<32768, 194>>, <<32768, 62>>, <<32768, 74>>, <<32768, 144>>,
    <<32768, 133>>, <<32768, 235>>, <<32768, 116>>, <<32768, 50>>, <<32768, 253>>, <<32768, 11>>,
    <<32768, 189>>, <<32768, 217>>, <<32768, 165>>, <<32768, 71>>, <<0, 25>>, <<0, 24>>,
    <<32768, 174>>, <<32768, 209>>, <<32768, 180>>, <<32768, 30>>, <<32768, 251>>, <<32768, 233>>,
    <<32768, 254>>, <<0, 26>>, <<0, 35>>, <<0, 57>>, <<0, 42>>, <<32768, 95>>,
    <<0, 65>>, <<32768, 81>>, <<0, 27>>, <<32768, 129>>, <<0, 32>>, <<32768, 2>>,
    <<0, 64>>, <<0, 26>>, <<32768, 40>>, <<0, 40>>, <<32768, 170>>, <<32768, 98>>,
    <<32768, 49>>, <<0, 36>>, <<32768, 125>>, <<32768, 52>>, <<32768, 147>>, <<0, 52>>,
    <<32768, 112>>, <<32768, 169>>, <<32768, 158>>, <<32768, 245>>, <<32768, 34>>, <<0, 45>>,
    <<32768, 132>>, <<32768, 136>>, <<32768, 16>>, <<0, 70>>, <<0, 59>>, <<0, 76>>,
    <<0, 92>>, <<32768, 102>>, <<0, 80>>, <<32768, 19>>, <<0, 74>>, <<32768, 184>>,
    <<0, 56>>, <<32768, 109>>, <<32768, 27>>, <<32768, 148>>, <<32768, 13>>, <<32768, 17>>,
    <<0, 68>>, <<0, 107>>, <<32768, 38>>, <<0, 75>>, <<0, 112>>, <<32768, 51>>,
    <<32768, 39>>, <<32768, 73>>, <<0, 89>>, <<32768, 173>>, <<0, 100>>, <<32768, 85>>,
    <<32768, 219>>, <<32768, 191>>, <<0, 62>>, <<32768, 76>>, <<32768, 105>>, <<32768, 198>>,
    <<32768, 104>>, <<32768, 86>>, <<32768, 242>>, <<32768, 227>>, <<32768, 43>>, <<32768, 131>>,
    <<32768, 203>>, <<32768, 215>>, <<32768, 176>>, <<32768, 130>>, <<32768, 110>>, <<0, 82>>,
    <<32768, 126>>, <<32768, 117>>, <<32768, 151>>, <<0, 137>>, <<0, 120>>, <<0, 144>>,
    <<0, 144>>, <<32768, 255>>, <<0, 143>>, <<32768, 14>>, <<0, 121>>, <<32768, 127>>,
    <<32768, 32>>, <<32768, 106>>, <<0, 84>>, <<0, 80>>, <<32768, 1>>, <<32768, 199>>,
    <<32768, 84>>, <<32768, 83>>, <<0, 108>>, <<32768, 229>>, <<32768, 134>>, <<32768, 35>>,
    <<32768, 211>>, <<32768, 56>>, <<32768, 25>>, <<32768, 192>>, <<32768, 145>>, <<0, 100>>,
    <<0, 96>>, <<32768, 46>>, <<32768, 232>>, <<32768, 79>>, <<32768, 26>>, <<0, 154>>,
    <<0, 153>>, <<0, 160>>, <<0, 169>>, <<32768, 171>>, <<0, 176>>, <<32768, 159>>,
    <<32768, 164>>, <<32768, 100>>, <<0, 129>>, <<0, 119>>, <<32768, 237>>, <<32768, 216>>,
    <<32768, 205>>, <<32768, 197>>, <<32768, 88>>, <<32768, 9>>, <<0, 185>>, <<0, 193>>,
    <<32768, 64>>, <<32768, 137>>, <<32768, 89>>, <<32768, 90>>, <<0, 192>>, <<32768, 218>>,
    <<32768, 77>>, <<32768, 221>>, <<32768, 244>>, <<32768, 111>>, <<32768, 156>>, <<32768, 10>>,
    <<32768, 236>>, <<32768, 202>>, <<32768, 141>>, <<32768, 206>>, <<32768, 188>>, <<32768, 210>>,
    <<32768, 142>>, <<32768, 61>>, <<32768, 231>>, <<0, 186>>, <<32768, 160>>, <<32768, 161>>,
    <<0, 202>>, <<32768, 115>>, <<32768, 128>>, <<32768, 135>>, <<32768, 152>>, <<32768, 243>>,
    <<32768, 124>>, <<0, 217>>, <<32768, 4>>, <<32768, 200>>, <<0, 224>>, <<32768, 226>>,
    <<32768, 146>>, <<32768, 47>>, <<32768, 99>>, <<32768, 123>>, <<32768, 87>>, <<32768, 140>>,
    <<32768, 238>>, <<32768, 37>>, <<32768, 23>>, <<32768, 168>>, <<0, 233>>, <<0, 239>>,
    <<32768, 193>>, <<32768, 143>>, <<0, 240>>, <<32768, 42>>, <<32768, 6>>, <<32768, 33>>,
    <<32768, 70>>, <<32768, 65>>, <<32768, 249>>, <<32768, 15>>, <<32768, 55>>, <<32768, 213>>,
    <<32768, 59>>, <<0, 187>>, <<0, 219>>, <<0, 250>>, <<32768, 207>>, <<32768, 48>>,
    <<0, 256>>, <<32768, 31>>, <<0, 249>>, <<32768, 182>>, <<32768, 66>>, <<32768, 201>>,
    <<32768, 177>>, <<32768, 163>>, <<32768, 24>>, <<32768, 22>>, <<32768, 250>>, <<0, 255>>,
    <<0, 165>>, <<0, 265>>, <<0, 158>>, <<32768, 179>>, <<0, 272>>, <<32768, 166>>,
    <<32768, 28>>, <<32768, 186>>, <<32768, 212>>, <<32768, 157>>, <<32768, 247>>, <<32767, 65535>>,
    <<32768, 5>>, <<32768, 53>>, <<32768, 58>>, <<32768, 208>>, <<32768, 149>>, <<32768, 154>>,
    <<32768, 240>>, <<32768, 44>>, <<32768, 97>>, <<32768, 150>>, <<32768, 45>>, <<32767, 65535>>,
    <<32768, 101>>, <<32768, 162>>, <<32768, 195>>, <<32768, 63>>, <<0, 124>>, <<32768, 91>>,
    <<32768, 78>>, <<0, 271>>, <<0, 297>>, <<0, 288>>, <<0, 182>>, <<0, 164>>,
    <<32768, 119>>, <<32767, 65535>>, <<32768, 252>>, <<32768, 60>>, <<0, 174>>, <<32768, 175>>,
    <<0, 140>>, <<0, 148>>, <<32768, 3>>, <<32768, 21>>, <<0, 299>>, <<32768, 183>>,
    <<32768, 178>>, <<0, 164>>, <<32767, 65535>>, <<32768, 120>>, <<32768, 228>>, <<32768, 54>>,
    <<32768, 138>>, <<32768, 69>>, <<0, 305>>, <<0, 312>>, <<0, 181>>, <<32767, 65535>>,
    <<0, 320>>, <<32768, 139>>, <<32768, 204>>, <<0, 329>>, <<0, 273>>, <<0, 330>>,
    <<32768, 190>>, <<32767, 65535>>, <<0, 336>>, <<32768, 57>>, <<0, 311>>, <<32768, 67>>,
    <<32768, 93>>, <<32767, 65535>>, <<0, 260>>, <<32768, 167>>, <<32768, 92>>, <<32768, 121>>,
    <<32768, 72>>, <<32768, 122>>, <<32768, 20>>, <<0, 198>>, <<32768, 75>>, <<32768, 214>>,
    <<32768, 107>>, <<32767, 65535>>, <<32768, 223>>, <<32767, 65535>>, <<32768, 196>>, <<32767, 65535>>,
    <<32768, 82>>, <<0, 194>>, <<32768, 118>>, <<32768, 108>>, <<0, 228>>, <<0, 357>>,
    <<0, 342>>, <<0, 344>>, <<0, 274>>, <<32768, 172>>, <<0, 346>>, <<0, 379>>,
    <<0, 327>>, <<0, 385>>, <<0, 266>>, <<32767, 65535>>, <<0, 384>>, <<0, 374>>,
    <<0, 376>>, <<32768, 68>>, <<32768, 0>>, <<32768, 18>>, <<32768, 230>>, <<0, 252>>,
    <<32768, 248>>, <<32768, 80>>, <<32768, 181>>, <<32768, 94>>, <<32768, 29>>, <<32767, 65535>>,
    <<32768, 241>>, <<32768, 224>>, <<32768, 7>>, <<32768, 222>>, <<32768, 246>>, <<32767, 65535>>,
    <<32768, 187>>, <<32768, 12>>, <<32768, 225>>, <<32768, 155>>, <<32768, 239>>, <<32767, 65535>>,
    <<32768, 113>>, <<32768, 41>>, <<0, 394>>, <<32768, 185>>, <<32768, 220>>, <<32768, 8>>,
    <<0, 387>>, <<32768, 234>>, <<32768, 103>>, <<32768, 153>>, <<32767, 65535>>, <<32767, 65535>>,
    <<32767, 65535>>, <<32767, 65535>>, <<32767, 65535>>, <<32767, 65535>>, <<32767, 65535>>, <<32767, 65535>>,
    <<32767, 65535>>, <<32767, 65535>>, <<32767, 65535>>, <<32767, 65535>>, <<32767, 65535>>, <<32767, 65535>>,
    <<32767, 65535>>, <<32767, 65535>>, <<32767, 65535>>, <<32767, 65535>>, <<32767, 65535>>, <<32767, 65535>>,
    <<32767, 65535>>, <<32767, 65535>>, <<32767, 65535>>, <<32767, 65535>>, <<32767, 65535>>, <<32767, 65535>>,
    <<32767, 65535>>, <<32767, 65535>>, <<32767, 65535>>, <<32767, 65535>>, <<32767, 65535>>, <<32767, 65535>>,
    <<32767, 65535>>, <<32767, 65535>>, <<32767, 65535>>, <<32767, 65535>>, <<32767, 65535>>, <<32767, 65535>>,
    <<32767, 65535>>, <<32767, 65535>>, <<32767, 65535>>, <<32767, 65535>>, <<32767, 65535>>, <<32767, 65535>>,
    <<32767, 65535>>, <<32767, 65535>>, <<32767, 65535>>, <<32767, 65535>>, <<32767, 65535>>, <<32767, 65535>>,
    <<32767, 65535>>, <<32767, 65535>>, <<32767, 65535>>, <<32767, 65535>>, <<32767, 65535>>, <<32767, 65535>>,
    <<32767, 65535>>, <<32767, 65535>>, <<32767, 65535>>, <<32767, 65535>>, <<32767, 65535>>, <<32767, 65535>>,
    <<32767, 65535>>, <<32767, 65535>>, <<32767, 65535>>, <<32767, 65535>>, <<32767, 65535>>, <<32767, 65535>>,
    <<32767, 65535>>, <<32767, 65535>>, <<32767, 65535>>, <<32767, 65535>>, <<32767, 65535>>, <<32767, 65535>>,
    <<32767, 65535>>, <<32767, 65535>>, <<32767, 65535>>, <<32767, 65535>>, <<32767, 65535>>, <<32767, 65535>>,
    <<32767, 65535>>, <<32767, 65535>>, <<32767, 65535>>, <<32767, 65535>>, <<32767, 65535>>, <<32767, 65535>>,
    <<32767, 65535>>, <<32767, 65535>>, <<32767, 65535>>, <<32767, 65535>>, <<32767, 65535>>, <<32767, 65535>>,
    <<32767, 65535>>, <<32767, 65535>>, <<32767, 65535>>, <<32767, 65535>>, <<32767, 65535>>, <<32767, 65535>>,
    <<32767, 65535>>, <<32767, 65535>>, <<32767, 65535>>, <<32767, 65535>>, <<32767, 65535>>, <<32767, 65535>>,
    <<32767, 65535>>, <<32767, 65535>>, <<32767, 65535>>, <<32767, 65535>>, <<32767, 65535>>, <<32767, 65535>>,
    <<32767, 65535>>, <<32767, 65535>> >>

CHECK ==
  <<
    <<32767, 65535>>, <<32768, 0>>, <<32768, 0>>, <<32768, 0>>, <<0, 0>>, <<0, 0>>,
    <<32768, 0>>, <<0, 0>>, <<32768, 0>>, <<0, 0>>, <<0, 0>>, <<0, 0>>,
    <<0, 0>>, <<0, 0>>, <<0, 0>>, <<0, 0>>, <<0, 0>>, <<0, 0>>,
    <<0, 0>>, <<0, 0>>, <<0, 0>>, <<0, 0>>, <<0, 0>>, <<0, 0>>,
    <<0, 40>>, <<0, 41>>, <<0, 49>>, <<0, 56>>, <<0, 56>>, <<0, 61>>,
    <<0, 49>>, <<0, 56>>, <<0, 2>>, <<0, 58>>, <<0, 58>>, <<0, 50>>,
    <<0, 2>>, <<0, 2>>, <<0, 2>>, <<0, 2>>, <<0, 50>>, <<0, 2>>,
    <<0, 2>>, <<0, 52>>, <<0, 77>>, <<0, 67>>, <<0, 2>>, <<0, 63>>,
    <<0, 90>>, <<32768, 13>>, <<32768, 13>>, <<32768, 13>>, <<0, 13>>, <<0, 71>>,
    <<32768, 13>>, <<0, 110>>, <<32768, 13>>, <<0, 51>>, <<0, 13>>, <<0, 82>>,
    <<32768, 51>>, <<0, 51>>, <<0, 51>>, <<0, 82>>, <<0, 60>>, <<0, 54>>,
    <<0, 83>>, <<0, 81>>, <<0, 54>>, <<0, 96>>, <<0, 81>>, <<0, 83>>,
    <<0, 54>>, <<0, 60>>, <<0, 88>>, <<0, 99>>, <<0, 83>>, <<0, 81>>,
    <<0, 88>>, <<0, 99>>, <<0, 86>>, <<32768, 15>>, <<32768, 15>>, <<32768, 15>>,
    <<0, 15>>, <<0, 86>>, <<32768, 15>>, <<0, 141>>, <<32768, 15>>, <<0, 104>>,
    <<0, 15>>, <<0, 125>>, <<0, 104>>, <<0, 140>>, <<0, 84>>, <<0, 84>>,
    <<0, 97>>, <<32768, 16>>, <<0, 16>>, <<32768, 16>>, <<0, 16>>, <<0, 155>>,
    <<0, 16>>, <<0, 106>>, <<32768, 16>>, <<0, 156>>, <<0, 16>>, <<0, 97>>,
    <<0, 106>>, <<0, 146>>, <<0, 97>>, <<0, 97>>, <<0, 1>>, <<0, 100>>,
    <<0, 100>>, <<0, 100>>, <<0, 1>>, <<0, 1>>, <<0, 171>>, <<0, 1>>,
    <<0, 130>>, <<0, 136>>, <<0, 1>>, <<0, 286>>, <<0, 136>>, <<0, 130>>,
    <<0, 1>>, <<0, 130>>, <<0, 170>>, <<32768, 12>>, <<32768, 12>>, <<32768, 12>>,
    <<0, 12>>, <<0, 300>>, <<32768, 12>>, <<0, 170>>, <<32768, 12>>, <<0, 129>>,
    <<0, 134>>, <<0, 134>>, <<0, 129>>, <<0, 129>>, <<0, 129>>, <<0, 134>>,
    <<0, 131>>, <<0, 132>>, <<0, 162>>, <<0, 301>>, <<0, 131>>, <<0, 131>>,
    <<0, 132>>, <<0, 131>>, <<0, 132>>, <<0, 162>>, <<0, 161>>, <<0, 131>>,
    <<0, 162>>, <<0, 161>>, <<0, 161>>, <<0, 260>>, <<0, 163>>, <<32768, 17>>,
    <<32768, 17>>, <<32768, 17>>, <<32768, 163>>, <<0, 258>>, <<32768, 17>>, <<0, 307>>,
    <<0, 17>>, <<0, 164>>, <<0, 17>>, <<0, 163>>, <<0, 298>>, <<0, 293>>,
    <<0, 164>>, <<0, 258>>, <<0, 166>>, <<0, 19>>, <<32768, 19>>, <<32768, 19>>,
    <<0, 316>>, <<0, 292>>, <<0, 19>>, <<0, 166>>, <<32768, 19>>, <<0, 178>>,
    <<0, 201>>, <<0, 241>>, <<0, 178>>, <<0, 178>>, <<0, 241>>, <<0, 201>>,
    <<0, 184>>, <<0, 179>>, <<0, 20>>, <<0, 349>>, <<0, 184>>, <<0, 179>>,
    <<0, 179>>, <<0, 184>>, <<0, 20>>, <<32768, 20>>, <<0, 204>>, <<0, 20>>,
    <<32768, 20>>, <<0, 204>>, <<0, 204>>, <<0, 339>>, <<0, 8>>, <<0, 22>>,
    <<0, 22>>, <<32768, 22>>, <<0, 8>>, <<0, 8>>, <<32768, 22>>, <<0, 8>>,
    <<0, 22>>, <<0, 211>>, <<0, 8>>, <<0, 242>>, <<0, 242>>, <<0, 211>>,
    <<0, 8>>, <<0, 242>>, <<0, 214>>, <<0, 10>>, <<32768, 10>>, <<32768, 10>>,
    <<0, 352>>, <<0, 214>>, <<32768, 10>>, <<0, 214>>, <<0, 10>>, <<0, 226>>,
    <<0, 227>>, <<0, 227>>, <<0, 226>>, <<0, 352>>, <<0, 226>>, <<0, 227>>,
    <<0, 230>>, <<32768, 14>>, <<32768, 14>>, <<32768, 14>>, <<0, 230>>, <<0, 230>>,
    <<32768, 14>>, <<0, 257>>, <<32768, 14>>, <<0, 248>>, <<0, 243>>, <<0, 257>>,
    <<0, 248>>, <<0, 371>>, <<0, 243>>, <<0, 257>>, <<0, 246>>, <<32768, 5>>,
    <<32768, 5>>, <<32768, 5>>, <<0, 289>>, <<0, 332>>, <<32768, 5>>, <<0, 246>>,
    <<0, 5>>, <<0, 259>>, <<0, 246>>, <<0, 289>>, <<0, 362>>, <<32767, 65535>>,
    <<0, 259>>, <<0, 289>>, <<0, 262>>, <<0, 322>>, <<0, 3>>, <<0, 356>>,
    <<0, 262>>, <<0, 262>>, <<0, 3>>, <<0, 262>>, <<0, 3>>, <<32767, 65535>>,
    <<0, 356>>, <<0, 322>>, <<0, 3>>, <<0, 3>>, <<0, 3>>, <<0, 3>>,
    <<0, 291>>, <<32768, 18>>, <<32768, 18>>, <<32768, 18>>, <<0, 18>>, <<0, 291>>,
    <<0, 18>>, <<32767, 65535>>, <<0, 18>>, <<0, 290>>, <<0, 18>>, <<0, 304>>,
    <<0, 290>>, <<0, 290>>, <<0, 304>>, <<0, 4>>, <<32768, 4>>, <<0, 314>>,
    <<0, 328>>, <<0, 18>>, <<32767, 65535>>, <<0, 314>>, <<0, 314>>, <<0, 18>>,
    <<0, 315>>, <<0, 4>>, <<32768, 4>>, <<32768, 4>>, <<0, 328>>, <<32767, 65535>>,
    <<32768, 4>>, <<0, 315>>, <<0, 318>>, <<32768, 7>>, <<32768, 7>>, <<32768, 7>>,
    <<0, 318>>, <<32767, 65535>>, <<32768, 7>>, <<0, 360>>, <<0, 7>>, <<0, 321>>,
    <<0, 323>>, <<32767, 65535>>, <<0, 360>>, <<0, 321>>, <<0, 321>>, <<0, 323>>,
    <<0, 326>>, <<0, 354>>, <<0, 354>>, <<0, 354>>, <<0, 326>>, <<0, 326>>,
    <<0, 354>>, <<32767, 65535>>, <<0, 355>>, <<32767, 65535>>, <<0, 358>>, <<32767, 65535>>,
    <<0, 355>>, <<0, 354>>, <<0, 358>>, <<0, 355>>, <<32768, 353>>, <<32768, 9>>,
    <<32768, 9>>, <<32768, 9>>, <<0, 9>>, <<0, 353>>, <<32768, 9>>, <<32768, 11>>,
    <<32768, 9>>, <<32768, 11>>, <<0, 9>>, <<32767, 65535>>, <<32768, 11>>, <<32768, 11>>,
    <<32768, 11>>, <<0, 353>>, <<0, 6>>, <<0, 365>>, <<0, 365>>, <<0, 9>>,
    <<0, 6>>, <<0, 6>>, <<0, 365>>, <<0, 6>>, <<0, 366>>, <<32767, 65535>>,
    <<0, 6>>, <<0, 359>>, <<0, 359>>, <<0, 366>>, <<0, 6>>, <<32767, 65535>>,
    <<0, 364>>, <<0, 361>>, <<0, 21>>, <<0, 396>>, <<0, 361>>, <<32767, 65535>>,
    <<0, 396>>, <<0, 364>>, <<32768, 21>>, <<0, 21>>, <<0, 392>>, <<0, 21>>,
    <<32768, 21>>, <<0, 392>>, <<0, 392>>, <<0, 392>>, <<32767, 65535>>, <<32767, 65535>>,
    <<32767, 65535>>, <<32767, 65535>>, <<32767, 65535>>, <<32767, 65535>>, <<32767, 65535>>, <<32767, 65535>>,
    <<32767, 65535>>, <<32767, 65535>>, <<32767, 65535>>, <<32767, 65535>>, <<32767, 65535>>, <<32767, 65535>>,
    <<32767, 65535>>, <<32767, 65535>>, <<32767, 65535>>, <<32767, 65535>>, <<32767, 65535>>, <<32767, 65535>>,
    <<32767, 65535>>, <<32767, 65535>>, <<32767, 65535>>, <<32767, 65535>>, <<32767, 65535>>, <<32767, 65535>>,
    <<32767, 65535>>, <<32767, 65535>>, <<32767, 65535>>, <<32767, 65535>>, <<32767, 65535>>, <<32767, 65535>>,
    <<32767, 65535>>, <<32767, 65535>>, <<32767, 65535>>, <<32767, 65535>>, <<32767, 65535>>, <<32767, 65535>>,
    <<32767, 65535>>, <<32767, 65535>>, <<32767, 65535>>, <<32767, 65535>>, <<32767, 65535>>, <<32767, 65535>>,
    <<32767, 65535>>, <<32767, 65535>>, <<32767, 65535>>, <<32767, 65535>>, <<32767, 65535>>, <<32767, 65535>>,
    <<32767, 65535>>, <<32767, 65535>>, <<32767, 65535>>, <<32767, 65535>>, <<32767, 65535>>, <<32767, 65535>>,
    <<32767, 65535>>, <<32767, 65535>>, <<32767, 65535>>, <<32767, 65535>>, <<32767, 65535>>, <<32767, 65535>>,
    <<32767, 65535>>, <<32767, 65535>>, <<32767, 65535>>, <<32767, 65535>>, <<32767, 65535>>, <<32767, 65535>>,
    <<32767, 65535>>, <<32767, 65535>>, <<32767, 65535>>, <<32767, 65535>>, <<32767, 65535>>, <<32767, 65535>>,
    <<32767, 65535>>, <<32767, 65535>>, <<32767, 65535>>, <<32767, 65535>>, <<32767, 65535>>, <<32767, 65535>>,
    <<32767, 65535>>, <<32767, 65535>>, <<32767, 65535>>, <<32767, 65535>>, <<32767, 65535>>, <<32767, 65535>>,
    <<32767, 65535>>, <<32767, 65535>>, <<32767, 65535>>, <<32767, 65535>>, <<32767, 65535>>, <<32767, 65535>>,
    <<32767, 65535>>, <<32767, 65535>>, <<32767, 65535>>, <<32767, 65535>>, <<32767, 65535>>, <<32767, 65535>>,
    <<32767, 65535>>, <<32767, 65535>>, <<32767, 65535>>, <<32767, 65535>>, <<32767, 65535>>, <<32767, 65535>>,
    <<32767, 65535>>, <<32767, 65535>>, <<32767, 65535>>, <<32767, 65535>>, <<32767, 65535>>, <<32767, 65535>>,
    <<32767, 65535>>, <<32767, 65535>> >>

-----------------------------------------------------------------------------
(* syllables.rs: the trie engine. *)

\* Gets the ascii string of a syllable identified by its index.
get(index) == SYLLABLES[index + 1]

\* Splits an integer into the most significant bit and the remainder.
split_msb(integer) ==
    [ flag  |-> integer[1] >= 32768,
      value |-> (integer[1] % 32768) * 65536 + integer[2] ]

\* (is_leaf, base) of a node
base(node_id) == split_msb(BASE[node_id + 1])

\* (has_leaf, check) of a node
check(node_id) == split_msb(CHECK[node_id + 1])

\* the root node standing for a syllable itself
root_valued == [ id |-> 0, base |-> base(0).value, is_leaf |-> FALSE, has_value |-> TRUE ]

\* The root node of the trie.
root == [ id |-> 0, base |-> base(0).value, is_leaf |-> FALSE, has_value |-> FALSE ]

\* u8::to_ascii_lowercase
to_ascii_lowercase(c) == IF c \in 65 .. 90 THEN c + 32 ELSE c

\* u8::to_ascii_uppercase
to_ascii_uppercase(c) == IF c \in 97 .. 122 THEN c - 32 ELSE c

\* Node::syllable taking the base of an inner node for its value
syllable_direct(node) ==
    IF node.has_value THEN Some(node.base % 256) ELSE None

\* Node::syllable: the index of the syllable the node stands for, if any
syllable(node) ==
    IF node.has_value /\ node.is_leaf THEN Some(node.base % 256)
    ELSE IF node.has_value THEN Some(base(node.base).value % 256)
    ELSE None

\* Node::child without the folding of the char to lowercase
child_cased(node, char) ==
    LET lower == char
    IN  IF lower < 97 \/ lower - 97 >= Len(TRANSLATION) THEN None
        ELSE LET code == TRANSLATION[lower - 97 + 1]
                 id == Xor(node.base, code)
                 b == base(id)
                 c == check(id)
             IN  IF c.value = node.id
                 THEN Some([ id |-> id, base |-> b.value, is_leaf |-> b.flag,
                             has_value |-> b.flag \/ c.flag ])
                 ELSE None

\* Node::child: the transition on one ascii char (a u8), None when there is none
child(node, char) ==
    LET lower == to_ascii_lowercase(char)
    IN  IF lower < 97 \/ lower - 97 >= Len(TRANSLATION) THEN None
        ELSE LET code == TRANSLATION[lower - 97 + 1]
                 id == Xor(node.base, code)
                 b == base(id)
                 c == check(id)
             IN  IF c.value = node.id
                 THEN Some([ id |-> id, base |-> b.value, is_leaf |-> b.flag,
                             has_value |-> b.flag \/ c.flag ])
                 ELSE None

RECURSIVE walk_counting(_, _, _)
\* the loop of longest_prefix_of counting the character it stops at
walk_counting(node, len, rest) ==
    IF rest = << >> THEN << node, len >>
    ELSE LET c == Head(rest)
             next == IF c <= 255 THEN child(node, c) ELSE None
         IN  IF next = None THEN << node, len + 1 >>
             ELSE walk_counting(next[1], len + 1, Tail(rest))

RECURSIVE walk(_, _, _)
\* the loop of longest_prefix_of: <<node, len>> where the walk stops
walk(node, len, rest) ==
    IF rest = << >> THEN << node, len >>
    ELSE LET c == Head(rest)
             next == IF c <= 255 THEN child(node, c) ELSE None
         IN  IF next = None THEN << node, len >>
             ELSE walk(next[1], len + 1, Tail(rest))

\* longest_prefix_of falling back to the longest prefix walked that is a syllable
longest_prefix_of_backtracking(str) ==
    LET w == walk(root, 0, str)
        at(n) == syllable(walk(root, 0, SubSeq(str, 1, n))[1])
        lens == { n \in 1 .. w[2] : at(n) # None }
    IN  IF lens = {} THEN None
        ELSE LET n == CHOOSE k \in lens : \A j \in lens : j <= k
             IN  Some(<< at(n)[1], n >>)

\* longest_prefix_of: Some(<<syllable_index, syllable_length>>) or None
longest_prefix_of(str) ==
    LET w == walk(root, 0, str)
        s == syllable(w[1])
    IN  IF s = None THEN None ELSE Some(<< s[1], w[2] >>)

RECURSIVE try_fold_child(_, _)
\* try_fold(Node::root(), Node::child) over chars, from an Option<Node>
try_fold_child(node, chars) ==
    IF node = None \/ chars = << >> THEN node
    ELSE try_fold_child(child(node[1], Head(chars)), Tail(chars))

\* char_follows looking at the first letter of the syllable only
char_follows_first(char, syl) ==
    try_fold_child(Some(root), << syl[1], char >>) # None

\* char_follows: whether the letter is a valid transition from the syllable's node
char_follows(char, syl) == try_fold_child(Some(root), Append(syl, char)) # None

-----------------------------------------------------------------------------
(* lib.rs: the checksum setting, the FNV-1a hash and the running code. *)

Checksum == { "Disabled", "Length1", "Length2", "Length3", "Length4" }

\* Checksum::len with the variants numbered from one
checksum_len_from_one(c) ==
    CASE c = "Disabled" -> 1
      [] c = "Length1" -> 2
      [] c = "Length2" -> 3
      [] c = "Length3" -> 4
      [] c = "Length4" -> 5

\* Checksum::len: the number of checksum bytes, the variant's ordinal
checksum_len(c) ==
    CASE c = "Disabled" -> 0
      [] c = "Length1" -> 1
      [] c = "Length2" -> 2
      [] c = "Length3" -> 3
      [] c = "Length4" -> 4

\* u32::wrapping_mul on <<high, low>> pairs
wrapping_mul(a, b) ==
    LET low == a[2] * b[2]
    IN  << (a[1] * b[2] + a[2] * b[1] + (low \div 65536)) % 65536, low % 65536 >>

\* Fnv1a::new: the FNV offset basis 0x811c9dc5
new == << 33052, 40389 >>

\* Fnv1a::update with the byte xored into bits 16..23
update_shifted(self, byte) == wrapping_mul(<< Xor(self[1], byte), self[2] >>, << 256, 403 >>)

\* Fnv1a::update: xor the byte in, multiply by the FNV prime 0x01000193
update(self, byte) == wrapping_mul(<< self[1], Xor(self[2], byte) >>, << 256, 403 >>)

\* Fnv1a::bytes: u32::to_le_bytes
bytes(self) == << self[2] % 256, self[2] \div 256, self[1] % 256, self[1] \div 256 >>

\* count_ones over the low half of the word only
count_ones_low(self) == PopCount(self[2])

\* u32::count_ones
count_ones(self) == PopCount(self[1]) + PopCount(self[2])

\* running_code adding the table entry in place of the xor
running_code_add(byte, index) == (byte + TABLE[(index % 256) + 1]) % 256

\* running_code: the byte xor the entropy table at the index, modulo 256
running_code(byte, index) == Xor(byte, TABLE[(index % 256) + 1])

-----------------------------------------------------------------------------
(* encode.rs: the encoder. *)

\* u8::MAX
U8MAX == 255

\* the Sentence with no word length where the setting is unset
new_sentence_zero(s) ==
    [ buffer    |-> << >>,
      previous  |-> None,
      word_len  |-> 0,
      max_word  |-> IF s.word_len = None THEN 0 ELSE s.word_len[1],
      decorate  |-> s.decorate ]

\* the Sentence encode_mono starts from
new_sentence(s) ==
    [ buffer    |-> << >>,
      previous  |-> None,
      word_len  |-> 0,
      max_word  |-> IF s.word_len = None THEN U8MAX ELSE s.word_len[1],
      decorate  |-> s.decorate ]

\* push breaking a word only once it has more syllables than max_word
push_late(self, byte, seed) ==
    LET syl == get(byte)
        ambiguous(preceding) == char_follows(syl[1], preceding)
        word_break ==
            \/ self.word_len > self.max_word
            \/ (self.previous # None /\ ambiguous(self.previous[1]))
        ones == count_ones(seed)
        choice ==
            IF word_break /\ self.decorate /\ ones > 19
                THEN [ capitalise |-> TRUE, delim |-> Some(<< 46, 32 >>) ]
            ELSE IF word_break /\ self.decorate /\ ones < 14
                THEN [ capitalise |-> FALSE, delim |-> Some(<< 44, 32 >>) ]
            ELSE IF word_break
                THEN [ capitalise |-> FALSE, delim |-> Some(<< 32 >>) ]
            ELSE IF self.decorate
                THEN [ capitalise |-> self.buffer = << >>, delim |-> None ]
            ELSE [ capitalise |-> FALSE, delim |-> None ]
        broken ==
            IF choice.delim # None
            THEN [ self EXCEPT !.word_len = 0, !.previous = None,
                               !.buffer = @ \o choice.delim[1] ]
            ELSE self
        pushed ==
            [ broken EXCEPT !.buffer = @ \o syl, !.previous = Some(syl),
                            !.word_len = @ + 1 ]
        first == Len(pushed.buffer) - Len(syl)
    IN  IF choice.capitalise
        THEN [ pushed EXCEPT !.buffer[first + 1] = to_ascii_uppercase(@) ]
        ELSE pushed

\* push with a word break only where the word is full
push_unbroken(self, byte, seed) ==
    LET syl == get(byte)
        word_break == self.word_len >= self.max_word
        ones == count_ones(seed)
        choice ==
            IF word_break /\ self.decorate /\ ones > 19
                THEN [ capitalise |-> TRUE, delim |-> Some(<< 46, 32 >>) ]
            ELSE IF word_break /\ self.decorate /\ ones < 14
                THEN [ capitalise |-> FALSE, delim |-> Some(<< 44, 32 >>) ]
            ELSE IF word_break
                THEN [ capitalise |-> FALSE, delim |-> Some(<< 32 >>) ]
            ELSE IF self.decorate
                THEN [ capitalise |-> self.buffer = << >>, delim |-> None ]
            ELSE [ capitalise |-> FALSE, delim |-> None ]
        broken ==
            IF choice.delim # None
            THEN [ self EXCEPT !.word_len = 0, !.previous = None,
                               !.buffer = @ \o choice.delim[1] ]
            ELSE self
        pushed ==
            [ broken EXCEPT !.buffer = @ \o syl, !.previous = Some(syl),
                            !.word_len = @ + 1 ]
        first == Len(pushed.buffer) - Len(syl)
    IN  IF choice.capitalise
        THEN [ pushed EXCEPT !.buffer[first + 1] = to_ascii_uppercase(@) ]
        ELSE pushed

\* push leaving the count of the word's syllables as it is at a word break
push_no_reset(self, byte, seed) ==
    LET syl == get(byte)
        ambiguous(preceding) == char_follows(syl[1], preceding)
        word_break ==
            \/ self.word_len >= self.max_word
            \/ (self.previous # None /\ ambiguous(self.previous[1]))
        ones == count_ones(seed)
        choice ==
            IF word_break /\ self.decorate /\ ones > 19
                THEN [ capitalise |-> TRUE, delim |-> Some(<< 46, 32 >>) ]
            ELSE IF word_break /\ self.decorate /\ ones < 14
                THEN [ capitalise |-> FALSE, delim |-> Some(<< 44, 32 >>) ]
            ELSE IF word_break
                THEN [ capitalise |-> FALSE, delim |-> Some(<< 32 >>) ]
            ELSE IF self.decorate
                THEN [ capitalise |-> self.buffer = << >>, delim |-> None ]
            ELSE [ capitalise |-> FALSE, delim |-> None ]
        broken ==
            IF choice.delim # None
            THEN [ self EXCEPT !.previous = None,
                               !.buffer = @ \o choice.delim[1] ]
            ELSE self
        pushed ==
            [ broken EXCEPT !.buffer = @ \o syl, !.previous = Some(syl),
                            !.word_len = @ + 1 ]
        first == Len(pushed.buffer) - Len(syl)
    IN  IF choice.capitalise
        THEN [ pushed EXCEPT !.buffer[first + 1] = to_ascii_uppercase(@) ]
        ELSE pushed

\* Sentence::push: encodes a single byte; the seed picks the delimiter
push(self, byte, seed) ==
    LET syl == get(byte)
        ambiguous(preceding) == char_follows(syl[1], preceding)
        word_break ==
            \/ self.word_len >= self.max_word
            \/ (self.previous # None /\ ambiguous(self.previous[1]))
        ones == count_ones(seed)
        choice ==
            IF word_break /\ self.decorate /\ ones > 19
                THEN [ capitalise |-> TRUE, delim |-> Some(<< 46, 32 >>) ]
            ELSE IF word_break /\ self.decorate /\ ones < 14
                THEN [ capitalise |-> FALSE, delim |-> Some(<< 44, 32 >>) ]
            ELSE IF word_break
                THEN [ capitalise |-> FALSE, delim |-> Some(<< 32 >>) ]
            ELSE IF self.decorate
                THEN [ capitalise |-> self.buffer = << >>, delim |-> None ]
            ELSE [ capitalise |-> FALSE, delim |-> None ]
        broken ==
            IF choice.delim # None
            THEN [ self EXCEPT !.word_len = 0, !.previous = None,
                               !.buffer = @ \o choice.delim[1] ]
            ELSE self
        pushed ==
            [ broken EXCEPT !.buffer = @ \o syl, !.previous = Some(syl),
                            !.word_len = @ + 1 ]
        first == Len(pushed.buffer) - Len(syl)
    IN  IF choice.capitalise
        THEN [ pushed EXCEPT !.buffer[first + 1] = to_ascii_uppercase(@) ]
        ELSE pushed

\* finalise with a period after an empty decorated sentence too
finalise_empty(self) ==
    IF self.decorate THEN Append(self.buffer, 46) ELSE self.buffer

\* finalise with a period whether the sentence is decorated or not
finalise_undecorated(self) ==
    IF self.buffer # << >> THEN Append(self.buffer, 46) ELSE self.buffer

\* Sentence::finalise: the trailing period of a decorated sentence
finalise(self) ==
    IF self.decorate /\ self.buffer # << >> THEN Append(self.buffer, 46) ELSE self.buffer

\* encode_payload hashing the byte after the running code
encode_payload_coded(st, byte, i) ==
    LET encoded == running_code(byte, i)
        h == update(st[2], encoded)
    IN  << push(st[1], encoded, h), h >>

\* one turn of encode_mono's payload loop on <<sentence, hash>>
encode_payload(st, byte, i) ==
    LET h == update(st[2], byte)
        encoded == running_code(byte, i)
    IN  << push(st[1], encoded, h), h >>

\* encode_checksum putting the checksum byte through the running code
encode_checksum_coded(st, byte) ==
    LET h == update(st[2], byte)
    IN  << push(st[1], running_code(byte, 0), h), h >>

\* one turn of encode_mono's checksum loop on <<sentence, hash>>
encode_checksum(st, byte) ==
    LET h == update(st[2], byte)
    IN  << push(st[1], byte, h), h >>

RECURSIVE encode_payload_loop(_, _, _)
encode_payload_loop(st, d, i) ==
    IF i >= Len(d) THEN st
    ELSE encode_payload_loop(encode_payload(st, d[i + 1], i), d, i + 1)

RECURSIVE encode_checksum_loop(_, _, _, _)
encode_checksum_loop(st, cbytes, j, n) ==
    IF j >= n THEN st
    ELSE encode_checksum_loop(encode_checksum(st, cbytes[j + 1]), cbytes, j + 1, n)

\* encode_mono: the whole encoder as a function of the data and the settings
encode_mono(d, s) ==
    LET paid == encode_payload_loop(<< new_sentence(s), new >>, d, 0)
        done == encode_checksum_loop(paid, bytes(paid[2]), 0, checksum_len(s.checksum))
    IN  finalise(done[1])

-----------------------------------------------------------------------------
(* decode.rs: the decoder. *)

Ok(v) == << "Ok", v >>
Err(e) == << "Err", e >>

\* char::is_alphabetic on the characters the model uses: the ASCII letters, the
\* letters of Latin-1 and the CJK unified ideographs; nothing else is alphabetic
is_alphabetic(c) ==
    \/ c \in 65 .. 90
    \/ c \in 97 .. 122
    \/ c \in { 170, 181, 186 }
    \/ c \in 192 .. 214
    \/ c \in 216 .. 246
    \/ c \in 248 .. 255
    \/ c \in 19968 .. 40959

\* char::len_utf8
len_utf8(c) == IF c < 128 THEN 1 ELSE IF c < 2048 THEN 2 ELSE IF c < 65536 THEN 3 ELSE 4

RECURSIVE slice_from(_, _)
\* &string[n..] with n a byte offset: Some(rest), or None where the slice panics
\* (n is past the end or inside a character)
slice_from(str, n) ==
    IF n = 0 THEN Some(str)
    ELSE IF str = << >> \/ len_utf8(Head(str)) > n THEN None
    ELSE slice_from(Tail(str), n - len_utf8(Head(str)))

RECURSIVE gobble_spaces(_)
\* gobble skipping spaces only
gobble_spaces(str) ==
    IF str = << >> THEN << >>
    ELSE IF Head(str) # 32 THEN str
    ELSE gobble_spaces(Tail(str))

RECURSIVE gobble(_)
\* string.find(char::is_alphabetic) and the split: the text from the first
\* alphabetic character on, "" when there is none
gobble(str) ==
    IF str = << >> THEN << >>
    ELSE IF is_alphabetic(Head(str)) THEN str
    ELSE gobble(Tail(str))

\* decode_turn leaving the loop where no syllable is found, instead of returning the error
decode_turn_break(str, buf) ==
    LET found == longest_prefix_of(str)
    IN  IF found = None THEN << "Next", << >>, buf >>
        ELSE LET rest == slice_from(str, found[1][2])
             IN  IF rest = None THEN << "Panic", "slice" >>
                 ELSE << "Next", gobble(rest[1]), Append(buf, found[1][1]) >>

\* decode_turn skipping what is not alphabetic before the syllable too
decode_turn_gobbling(str, buf) ==
    LET found == longest_prefix_of(gobble(str))
    IN  IF found = None THEN Err("Syllable")
        ELSE LET rest == slice_from(gobble(str), found[1][2])
             IN  IF rest = None THEN << "Panic", "slice" >>
                 ELSE << "Next", gobble(rest[1]), Append(buf, found[1][1]) >>

\* one turn of decode_mono's loop on a non-empty string: the next <<string, buffer>>
\* as <<"Next", string, buffer>>, or the value decode_mono returns at once
decode_turn(str, buf) ==
    LET found == longest_prefix_of(str)
    IN  IF found = None THEN Err("Syllable")
        ELSE LET rest == slice_from(str, found[1][2])
             IN  IF rest = None THEN << "Panic", "slice" >>
                 ELSE << "Next", gobble(rest[1]), Append(buf, found[1][1]) >>

RECURSIVE decode_payload_raw(_, _, _, _)
\* decode_payload hashing the byte before the running code is undone
decode_payload_raw(buf, h, i, payload_len) ==
    IF i >= payload_len THEN << buf, h >>
    ELSE LET byte == running_code(buf[i + 1], i)
         IN  decode_payload_raw([ buf EXCEPT ![i + 1] = byte ], update(h, buf[i + 1]),
                                i + 1, payload_len)

RECURSIVE decode_payload(_, _, _, _)
\* the loop that undoes the running code and hashes: <<buffer, hash>>
decode_payload(buf, h, i, payload_len) ==
    IF i >= payload_len THEN << buf, h >>
    ELSE LET byte == running_code(buf[i + 1], i)
         IN  decode_payload([ buf EXCEPT ![i + 1] = byte ], update(h, byte), i + 1, payload_len)

\* decode_finish with the length test off by one
decode_finish_le(buf, c) ==
    IF Len(buf) <= checksum_len(c) THEN Err("TooShort")
    ELSE LET payload_len == Len(buf) - checksum_len(c)
             dh == decode_payload(buf, new, 0, payload_len)
             drained == SubSeq(dh[1], payload_len + 1, Len(buf))
             digest == bytes(dh[2])
             checksum_match ==
                 \A j \in 1 .. Len(drained) : j <= Len(digest) => drained[j] = digest[j]
         IN  IF checksum_match THEN Ok(SubSeq(dh[1], 1, payload_len))
             ELSE Err("Checksum")

\* decode_finish with saturating_sub in place of checked_sub
decode_finish_saturating(buf, c) ==
    LET payload_len == IF Len(buf) < checksum_len(c) THEN 0 ELSE Len(buf) - checksum_len(c)
        dh == decode_payload(buf, new, 0, payload_len)
        drained == SubSeq(dh[1], payload_len + 1, Len(buf))
        digest == bytes(dh[2])
        checksum_match ==
            \A j \in 1 .. Len(drained) : j <= Len(digest) => drained[j] = digest[j]
    IN  IF checksum_match THEN Ok(SubSeq(dh[1], 1, payload_len))
        ELSE Err("Checksum")

\* decode_mono after its loop: the payload length, the hash, the checksum match
decode_finish(buf, c) ==
    IF Len(buf) < checksum_len(c) THEN Err("TooShort")
    ELSE LET payload_len == Len(buf) - checksum_len(c)
             dh == decode_payload(buf, new, 0, payload_len)
             drained == SubSeq(dh[1], payload_len + 1, Len(buf))
             digest == bytes(dh[2])
             checksum_match ==
                 \A j \in 1 .. Len(drained) : j <= Len(digest) => drained[j] = digest[j]
         IN  IF checksum_match THEN Ok(SubSeq(dh[1], 1, payload_len))
             ELSE Err("Checksum")

RECURSIVE decode_loop(_, _)
\* decode_mono's while loop: the buffer as <<"Next", "", buffer>>, or the early return
decode_loop(str, buf) ==
    IF str = << >> THEN << "Next", str, buf >>
    ELSE LET t == decode_turn(str, buf)
         IN  IF t[1] = "Next" THEN decode_loop(t[2], t[3]) ELSE t

\* decode_mono: the whole decoder as a function of the string and the checksum
decode_mono(str, c) ==
    LET l == decode_loop(str, << >>)
    IN  IF l[1] = "Next" THEN decode_finish(l[3], c) ELSE l

-----------------------------------------------------------------------------
(* The inputs the model draws from. *)

\* payload bytes: 0, the bytes that encode to "o" and "us" at indices 0 and 1, and 255
DataBytes == { 0, 72, 212, 255 }

\* Settings::word_len values: unset, and Some(0) .. Some(3)
WordLens == { None, Some(0), Some(1), Some(2), Some(3) }

SettingsSet == [ word_len : WordLens, checksum : Checksum, decorate : BOOLEAN ]

\* Settings::default
default == [ word_len |-> Some(3), checksum |-> "Length1", decorate |-> FALSE ]

\* characters typed into a text by hand: u o s, space, the digit 1
TextChars == { 117, 111, 115, 32, 49 }

\* characters inserted into a text: space, comma, the emoji U+1F600, the multiplication
\* sign U+00D7, and two letters outside ASCII, U+00E9 and U+65E5
StrayChars == { 32, 44, 128512, 215, 233, 26085 }

\* syllables put in the place of another: u, ry, o, sive, us
ReplaceBytes == { 0, 21, 45, 64, 94 }

\* the syllable a long payload repeats: u, which no u follows
RunSyllable == 0

\* syllables a long payload goes on with: u, ry (which follows u), o (which u follows)
LongSyllables == { 0, 21, 45 }

\* Settings::word_len values of a long encode: unset, and Some(254)
LongWordLens == { None, Some(254) }

-----------------------------------------------------------------------------
(* The state machine: encode_mono and decode_mono step by step. *)

Init ==
    /\ pc = "payload"
    /\ settings \in SettingsSet
    /\ data = << >>
    /\ sentence = new_sentence(settings)
    /\ hash = new
    /\ checksum_bytes = << >>
    /\ text = << >>
    /\ orig = << >>
    /\ edit = << >>
    /\ checksum = "unset"
    /\ string = << >>
    /\ buffer = << >>
    /\ result = << >>

\* encode_mono's payload loop reads one more byte of the data
EncodePayload(byte) ==
    /\ pc = "payload"
    /\ Len(data) < MaxData
    /\ LET st == encode_payload(<< sentence, hash >>, byte, Len(data))
       IN  sentence' = st[1] /\ hash' = st[2]
    /\ data' = Append(data, byte)
    /\ UNCHANGED << pc, settings, checksum_bytes, text, orig, edit, checksum, string,
                    buffer, result >>

\* the data is exhausted: encode_mono takes the checksum bytes of the hash
EncodeDigest ==
    /\ pc = "payload"
    /\ pc' = "checksum"
    /\ checksum_bytes' = SubSeq(bytes(hash), 1, checksum_len(settings.checksum))
    /\ UNCHANGED << settings, data, sentence, hash, text, orig, edit, checksum, string,
                    buffer, result >>

\* encode_mono's checksum loop pushes the next checksum byte
EncodeChecksum ==
    /\ pc = "checksum"
    /\ checksum_bytes # << >>
    /\ LET st == encode_checksum(<< sentence, hash >>, Head(checksum_bytes))
       IN  sentence' = st[1] /\ hash' = st[2]
    /\ checksum_bytes' = Tail(checksum_bytes)
    /\ UNCHANGED << pc, settings, data, text, orig, edit, checksum, string, buffer, result >>

\* encode_mono returns the finalised sentence
EncodeReturn ==
    /\ pc = "checksum"
    /\ checksum_bytes = << >>
    /\ pc' = "encoded"
    /\ text' = finalise(sentence)
    /\ orig' = text'
    /\ UNCHANGED << settings, data, sentence, hash, checksum_bytes, edit, checksum, string,
                    buffer, result >>

\* decode_mono is called on the text with a checksum setting
DecodeStart(c) ==
    /\ pc \in { "encoded", "typing" }
    /\ pc' = "parse"
    /\ checksum' = c
    /\ string' = text
    /\ buffer' = << >>
    /\ UNCHANGED << settings, data, sentence, hash, checksum_bytes, text, orig, edit, result >>

\* one turn of decode_mono's loop
DecodeTurn ==
    /\ pc = "parse"
    /\ string # << >>
    /\ LET t == decode_turn(string, buffer)
       IN  IF t[1] = "Next"
           THEN string' = t[2] /\ buffer' = t[3] /\ UNCHANGED << pc, result >>
           ELSE result' = t /\ pc' = "done" /\ UNCHANGED << string, buffer >>
    /\ UNCHANGED << settings, data, sentence, hash, checksum_bytes, text, orig, edit, checksum >>

\* the string is consumed: decode_mono checks the checksum and returns
DecodeReturn ==
    /\ pc = "parse"
    /\ string = << >>
    /\ pc' = "done"
    /\ result' = decode_finish(buffer, checksum)
    /\ UNCHANGED << settings, data, sentence, hash, checksum_bytes, text, orig, edit, checksum,
                    string, buffer >>

\* the one element of a set of one element
the(S) == CHOOSE x \in S : TRUE

RECURSIVE syllable_spans(_, _)
\* the syllables decode_mono's loop finds in a text, each as <<offset, length, index>>,
\* the offset counted from the start of the text the loop began with
syllable_spans(str, off) ==
    IF str = << >> THEN << >>
    ELSE the({ IF found = None THEN << >>
               ELSE << << off, found[1][2], found[1][1] >> >>
                    \o the({ syllable_spans(rest, off + Len(str) - Len(rest)) :
                             rest \in { gobble(SubSeq(str, found[1][2] + 1, Len(str))) } }) :
               found \in { longest_prefix_of(str) } })

\* the offsets in a text right after each syllable decode_mono finds
syllable_ends(str) ==
    UNION { { spans[j][1] + spans[j][2] : j \in 1 .. Len(spans) } :
            spans \in { syllable_spans(str, 0) } }

\* the text with the characters of what put at offset p, over the next n characters
splice(str, p, n, what) == SubSeq(str, 1, p) \o what \o SubSeq(str, p + n + 1, Len(str))

\* a text is typed in by hand instead of being encoded
InitText ==
    /\ pc = "typing"
    /\ settings = default
    /\ data = << >>
    /\ sentence = new_sentence(settings)
    /\ hash = new
    /\ checksum_bytes = << >>
    /\ text = << >>
    /\ orig = << >>
    /\ edit = << >>
    /\ checksum = "unset"
    /\ string = << >>
    /\ buffer = << >>
    /\ result = << >>

\* one more character is typed
TypeChar(c) ==
    /\ pc = "typing"
    /\ Len(text) < MaxText
    /\ text' = Append(text, c)
    /\ orig' = text'
    /\ UNCHANGED << pc, settings, data, sentence, hash, checksum_bytes, edit, checksum,
                    string, buffer, result >>

\* the text is the syllable of one byte and nothing else
TypeSyllable(byte) ==
    /\ pc = "typing"
    /\ text = << >>
    /\ pc' = "encoded"
    /\ text' = get(byte)
    /\ orig' = text'
    /\ edit' = << "syllable", 0, byte >>
    /\ UNCHANGED << settings, data, sentence, hash, checksum_bytes, checksum, string,
                    buffer, result >>

\* a character is inserted right after one of the text's syllables
InsertStray(p, c) ==
    /\ pc \in { "typing", "encoded" }
    /\ edit = << >>
    /\ p \in syllable_ends(text)
    /\ pc' = "encoded"
    /\ text' = splice(text, p, 0, << c >>)
    /\ edit' = << "stray", p, c >>
    /\ UNCHANGED << settings, data, sentence, hash, checksum_bytes, orig, checksum, string,
                    buffer, result >>

\* the i-th payload syllable of an encoded text is replaced by another syllable
ReplaceSyllable(i, byte) ==
    /\ pc = "encoded"
    /\ edit = << >>
    /\ \E spans \in { syllable_spans(text, 0) } :
           /\ i \in 1 .. Len(data)
           /\ i <= Len(spans)
           /\ spans[i][3] # byte
           /\ text' = splice(text, spans[i][1], spans[i][2], get(byte))
    /\ edit' = << "replace", i, byte >>
    /\ UNCHANGED << pc, settings, data, sentence, hash, checksum_bytes, orig, checksum,
                    string, buffer, result >>

Encode ==
    \/ \E byte \in DataBytes : EncodePayload(byte)
    \/ EncodeDigest
    \/ EncodeChecksum
    \/ EncodeReturn

Decode ==
    \/ \E c \in Checksum : DecodeStart(c)
    \/ DecodeTurn
    \/ DecodeReturn

\* decode with the checksum setting the text was encoded with
DecodeSame ==
    \/ DecodeStart(settings.checksum)
    \/ DecodeTurn
    \/ DecodeReturn

Next == Encode \/ Decode

\* encode with any settings, then decode with any checksum setting
Spec == Init /\ [][Next]_vars

\* encode with any settings
SpecEncode == Init /\ [][Encode]_vars

NextSame == Encode \/ DecodeSame

\* encode with any settings, then decode with the checksum setting of the encode
SpecSame == Init /\ [][NextSame]_vars

NextText ==
    \/ \E c \in TextChars : TypeChar(c)
    \/ \E byte \in Byte : TypeSyllable(byte)
    \/ \E p \in 0 .. MaxText, c \in StrayChars : InsertStray(p, c)
    \/ Decode

\* type a text, insert a character into it or not, then decode with any checksum setting
SpecText == InitText /\ [][NextText]_vars

NextReplace ==
    \/ Encode
    \/ \E i \in 1 .. MaxData, byte \in ReplaceBytes : ReplaceSyllable(i, byte)
    \/ DecodeSame

\* encode, replace a payload syllable or not, then decode with the same checksum setting
SpecReplace == Init /\ [][NextReplace]_vars

RECURSIVE long_run(_, _, _)
\* encode_mono's payload loop over the bytes at indices lo .. hi - 1, each of which
\* encodes to RunSyllable: <<sentence, hash, data>> after them, from st before them
long_run(st, lo, hi) ==
    IF hi <= lo THEN st
    ELSE IF hi = lo + 1
    THEN the({ encode_payload(<< st[1], st[2] >>, byte, lo) \o << Append(st[3], byte) >> :
               byte \in { running_code(RunSyllable, lo) } })
    ELSE the({ long_run(half, (lo + hi) \div 2, hi) :
               half \in { long_run(st, lo, (lo + hi) \div 2) } })

\* encode_mono with LongRun bytes of its payload loop behind it
InitLong ==
    /\ pc = "payload"
    /\ settings \in [ word_len : LongWordLens, checksum : Checksum, decorate : BOOLEAN ]
    /\ \E st \in { long_run(<< new_sentence(settings), new, << >> >>, 0, LongRun) } :
           sentence = st[1] /\ hash = st[2] /\ data = st[3]
    /\ checksum_bytes = << >>
    /\ text = << >>
    /\ orig = << >>
    /\ edit = << >>
    /\ checksum = "unset"
    /\ string = << >>
    /\ buffer = << >>
    /\ result = << >>

\* encode_mono's payload loop reads one more byte of a long payload
EncodePayloadLong(byte) ==
    /\ pc = "payload"
    /\ Len(data) >= LongRun
    /\ Len(data) < LongRun + MaxData
    /\ LET st == encode_payload(<< sentence, hash >>, byte, Len(data))
       IN  sentence' = st[1] /\ hash' = st[2]
    /\ data' = Append(data, byte)
    /\ UNCHANGED << pc, settings, checksum_bytes, text, orig, edit, checksum, string,
                    buffer, result >>

NextLong ==
    \/ \E syl \in LongSyllables : EncodePayloadLong(running_code(syl, Len(data)))
    \/ EncodeDigest
    \/ EncodeChecksum
    \/ EncodeReturn

\* encode a payload of more than LongRun bytes
SpecLong == InitLong /\ [][NextLong]_vars

NextCount ==
    \/ \E byte \in DataBytes : EncodePayload(byte)
    \/ \E syl \in LongSyllables : EncodePayloadLong(running_code(syl, Len(data)))
    \/ EncodeDigest
    \/ EncodeChecksum
    \/ EncodeReturn

\* encode a short payload with any settings, or a payload of more than LongRun bytes
SpecCount == (Init \/ InitLong) /\ [][NextCount]_vars

\* indices running_code is called with: the first, the last of a period, the next period
CodeIndices == { 0, 1, 2, 254, 255, 256, 257, 511, 512 }

\* a caller of running_code holds one byte
InitCode ==
    /\ pc = "code"
    /\ settings = default
    /\ data \in { << b >> : b \in Byte }
    /\ sentence = new_sentence(settings)
    /\ hash = new
    /\ checksum_bytes = << >>
    /\ text = << >>
    /\ orig = << >>
    /\ edit = << >>
    /\ checksum = "unset"
    /\ string = << >>
    /\ buffer = << >>
    /\ result = << >>

\* running_code is applied to the byte at index i, as encode_mono does
Code(i) ==
    /\ pc = "code"
    /\ pc' = "coded"
    /\ edit' = << "code", i, data[1] >>
    /\ buffer' = << running_code(data[1], i) >>
    /\ UNCHANGED << settings, data, sentence, hash, checksum_bytes, text, orig, checksum,
                    string, result >>

\* running_code is applied to what it gave, at the same index, as decode_mono does
Uncode ==
    /\ pc = "coded"
    /\ pc' = "uncoded"
    /\ buffer' = Append(buffer, running_code(buffer[1], edit[2]))
    /\ UNCHANGED << settings, data, sentence, hash, checksum_bytes, text, orig, edit,
                    checksum, string, result >>

NextCode == (\E i \in CodeIndices : Code(i)) \/ Uncode

\* apply running_code to a byte at an index, then to the outcome at the same index
SpecCode == InitCode /\ [][NextCode]_vars

-----------------------------------------------------------------------------
(* The claims. *)

\* C1: round trip. Whatever the data and the settings (word_len unset or at least 1, any
\* checksum, decorated or not), decoding the encoded string with the checksum setting it
\* was encoded with returns Ok of the data.
C1_RoundTrip ==
    (pc = "done" /\ edit = << >> /\ checksum = settings.checksum
        /\ settings.word_len # Some(0))
    => result = Ok(data)

\* a decorated two-byte payload, word_len unset, whose encoding needed a word break
C1_Witness ==
    /\ pc = "done"
    /\ checksum = settings.checksum
    /\ settings.word_len = None
    /\ settings.decorate
    /\ Len(data) = 2
    /\ \E j \in 1 .. Len(text) : text[j] = 32
    /\ result = Ok(data)

\* the text without the characters that are not letters
strip(str) == SelectSeq(str, is_alphabetic)

\* no syllable decode found begins with a letter that continues the syllable before it
Unambiguous ==
    \A j \in 1 .. Len(buffer) - 1 : ~char_follows(get(buffer[j + 1])[1], get(buffer[j]))

\* C2 as stated: a text of syllables with stray characters between them decodes like the
\* same text with the stray characters removed.
C2_Stripped ==
    (pc = "done" /\ result # Err("Syllable"))
    => result = decode_mono(strip(text), checksum)

\* C2: a text of syllables with stray characters between them decodes like the same text
\* with the stray characters removed, provided no syllable begins with a letter that is
\* a valid continuation of the syllable before it.
C2_StrippedUnambiguous ==
    (pc = "done" /\ result # Err("Syllable") /\ Unambiguous)
    => result = decode_mono(strip(text), checksum)

\* two syllables or more, a stray character among them, decoded
C2_Witness ==
    /\ pc = "done"
    /\ result # << >>
    /\ result[1] = "Ok"
    /\ Len(buffer) >= 2
    /\ Unambiguous
    /\ \E j \in 2 .. Len(text) - 1 : ~is_alphabetic(text[j])

\* C3 as stated: a character that is no part of a syllable (whitespace, punctuation, an
\* emoji, any character outside ASCII), inserted after a syllable of a text that decodes,
\* leaves the result as it was.
C3_AnyStray ==
    (pc = "done" /\ edit # << >> /\ edit[1] = "stray"
        /\ decode_mono(orig, checksum)[1] = "Ok")
    => result = decode_mono(orig, checksum)

\* C3: a character that is not alphabetic, inserted after a syllable of a text that
\* decodes, leaves the result as it was.
C3_NonAlphabeticStray ==
    (pc = "done" /\ edit # << >> /\ edit[1] = "stray" /\ ~is_alphabetic(edit[3])
        /\ decode_mono(orig, checksum)[1] = "Ok")
    => result = decode_mono(orig, checksum)

\* an emoji inserted between two syllables of a text that decodes
C3_Witness ==
    /\ pc = "done"
    /\ edit # << >>
    /\ edit[1] = "stray"
    /\ edit[3] = 128512
    /\ edit[2] < Len(orig)
    /\ result # << >>
    /\ result[1] = "Ok"
    /\ Len(result[2]) >= 1

\* C4: where the text at the cursor has no syllable, decode returns Err(Syllable) there
\* and then, whatever the checksum setting and however few syllables came before.
C4_SyllableAtOnce ==
    [][ (pc = "parse" /\ string # << >> /\ longest_prefix_of(string) = None)
        => (pc' = "done" /\ result' = Err("Syllable")) ]_vars

\* Err(Syllable) after fewer syllables than the four-byte checksum needs
C4_Witness ==
    /\ pc = "done"
    /\ checksum = "Length4"
    /\ Len(buffer) \in 1 .. 3
    /\ string # << >>
    /\ result = Err("Syllable")

\* C5: a text that parses whole into n syllables gives Err(TooShort) exactly when n is
\* less than the checksum length; the empty text gives Err(TooShort) under Length1 ..
\* Length4 and Ok([]) under Disabled.
C5_TooShort ==
    (pc = "done" /\ string = << >>)
    => /\ (result = Err("TooShort")) <=> (Len(buffer) < checksum_len(checksum))
       /\ text = << >>
          => result = (IF checksum = "Disabled" THEN Ok(<< >>) ELSE Err("TooShort"))

\* three syllables decoded with a four-byte checksum
C5_Witness ==
    /\ pc = "done"
    /\ string = << >>
    /\ Len(buffer) = 3
    /\ checksum = "Length4"
    /\ result = Err("TooShort")

RECURSIVE fnv1a_range(_, _, _, _)
\* the accumulator h fed the bytes lo .. hi of p
fnv1a_range(p, h, lo, hi) ==
    IF hi < lo THEN h
    ELSE IF hi = lo THEN update(h, p[lo])
    ELSE the({ fnv1a_range(p, left, ((lo + hi) \div 2) + 1, hi) :
               left \in { fnv1a_range(p, h, lo, (lo + hi) \div 2) } })

\* the accumulator h fed the bytes of p
fnv1a(p, h) == fnv1a_range(p, h, 1, Len(p))

\* C6: decode returns Ok(p) only for a text parsed whole into n >= k bytes, p being the
\* first n - k of them with the running code undone and the last k being the first k
\* digest bytes of a fresh accumulator fed p; with one of the k different it returns
\* Err(Checksum).
C6_ChecksumMatch ==
    LET n == Len(buffer)
        k == checksum_len(checksum)
        p == [ i \in 1 .. n - k |-> running_code(buffer[i], i - 1) ]
        digest == bytes(fnv1a(p, new))
        match == \A j \in 1 .. k : buffer[n - k + j] = digest[j]
    IN  pc = "done"
        => /\ result[1] = "Ok" => (string = << >> /\ n >= k)
           /\ (string = << >> /\ n >= k)
              => result = (IF match THEN Ok(p) ELSE Err("Checksum"))

\* a payload accepted under a four-byte checksum
C6_Witness ==
    /\ pc = "done"
    /\ checksum = "Length4"
    /\ result[1] = "Ok"
    /\ Len(result[2]) >= 1

\* C7: with the checksum disabled decode returns neither Err(TooShort) nor Err(Checksum),
\* and a text that parses whole into n syllables gives Ok of n bytes.
C7_Disabled ==
    (pc = "done" /\ checksum = "Disabled")
    => /\ result # Err("TooShort")
       /\ result # Err("Checksum")
       /\ string = << >> => (result[1] = "Ok" /\ Len(result[2]) = Len(buffer))

\* three syllables decoded with the checksum disabled
C7_Witness ==
    /\ pc = "done"
    /\ checksum = "Disabled"
    /\ Len(buffer) = 3
    /\ result[1] = "Ok"

\* C8 as stated: an encoded string decoded with another checksum setting gives Ok of
\* bytes other than the data, or Err(Checksum), and nothing else.
C8_WrongOrChecksum ==
    (pc = "done" /\ edit = << >> /\ checksum # settings.checksum)
    => \/ (result[1] = "Ok" /\ result[2] # data)
       \/ result = Err("Checksum")

\* C8: an encoded string decoded with another checksum setting gives Err(TooShort) when
\* the data and its checksum are fewer bytes than the decoder's checksum, and otherwise
\* Ok of bytes other than the data, or Err(Checksum); an output of word_len = Some(0)
\* that is not empty begins with a delimiter and gives Err(Syllable).
C8_WrongChecksumOrTooShort ==
    (pc = "done" /\ edit = << >> /\ checksum # settings.checksum)
    => IF settings.word_len = Some(0) /\ text # << >>
       THEN result = Err("Syllable")
       ELSE IF Len(data) + checksum_len(settings.checksum) < checksum_len(checksum)
       THEN result = Err("TooShort")
       ELSE \/ (result[1] = "Ok" /\ result[2] # data)
            \/ result = Err("Checksum")

\* two bytes encoded without a checksum, decoded with a three-byte one
C8_Witness ==
    /\ pc = "done"
    /\ Len(data) = 2
    /\ settings.checksum = "Disabled"
    /\ checksum = "Length3"
    /\ result = Err("TooShort")

\* the replacement changed one payload syllable and nothing else of what decode parses
CleanReplace ==
    /\ edit # << >>
    /\ edit[1] = "replace"
    /\ string = << >>
    /\ buffer = [ decode_loop(orig, << >>)[3] EXCEPT ![edit[2]] = edit[3] ]

\* C9: with a checksum of 1..4 bytes, an encoded string with one payload syllable
\* replaced by another decodes to Err(Checksum).
C9_Sensitive ==
    (pc = "done" /\ CleanReplace /\ checksum # "Disabled")
    => result = Err("Checksum")

\* a payload syllable replaced under a one-byte checksum
C9_Witness ==
    /\ pc = "done"
    /\ CleanReplace
    /\ checksum = "Length1"
    /\ result = Err("Checksum")

\* C10 as stated: the syllable of a byte b alone, decoded with the checksum disabled,
\* gives Ok([b]).
C10_SyllableByte ==
    (pc = "done" /\ edit # << >> /\ edit[1] = "syllable" /\ checksum = "Disabled")
    => result = Ok(<< edit[3] >>)

\* C10: the syllable of a byte b alone, decoded with the checksum disabled, is found to
\* be syllable b and gives Ok([running_code(b, 0)]).
C10_SyllableRunningCode ==
    (pc = "done" /\ edit # << >> /\ edit[1] = "syllable" /\ checksum = "Disabled")
    => /\ buffer = << edit[3] >>
       /\ result = Ok(<< running_code(edit[3], 0) >>)

\* the syllable of byte 255 decoded alone
C10_Witness ==
    /\ pc = "done"
    /\ edit # << >>
    /\ edit[1] = "syllable"
    /\ edit[3] = 255
    /\ checksum = "Disabled"
    /\ result[1] = "Ok"

\* the number of checksum bytes encode_mono has pushed so far
pushed_checksum == IF pc = "payload" THEN 0
                   ELSE checksum_len(settings.checksum) - Len(checksum_bytes)

\* the bytes encode_mono has handed to push so far: every payload byte under the
\* running code, then the digest bytes of the payload
emitted ==
    [ i \in 1 .. Len(data) |-> running_code(data[i], i - 1) ]
        \o SubSeq(bytes(fnv1a(data, new)), 1, pushed_checksum)

\* an ASCII letter
is_letter(c) == c \in 65 .. 90 \/ c \in 97 .. 122

RECURSIVE skip_delimiter(_, _)
\* the offset of the first letter of buf at or after offset pos, Len(buf) if none
skip_delimiter(buf, pos) ==
    IF pos >= Len(buf) \/ is_letter(buf[pos + 1]) THEN pos
    ELSE skip_delimiter(buf, pos + 1)

RECURSIVE starts(_, _, _, _, _)
\* the offsets in buf at which the syllables lo .. hi of the bytes syls begin, one after
\* another from offset pos on, and the offset after the last: <<offsets, end>>
starts(buf, syls, lo, hi, pos) ==
    IF hi < lo THEN << << >>, pos >>
    ELSE IF hi = lo
    THEN the({ << << s >>, s + Len(get(syls[lo])) >> : s \in { skip_delimiter(buf, pos) } })
    ELSE the({ the({ << left[1] \o right[1], right[2] >> :
                     right \in { starts(buf, syls, ((lo + hi) \div 2) + 1, hi, left[2]) } }) :
               left \in { starts(buf, syls, lo, (lo + hi) \div 2, pos) } })

\* the characters of buf from offset lo up to offset hi, as far as buf goes
slice(buf, lo, hi) == SubSeq(buf, lo + 1, IF hi > Len(buf) THEN Len(buf) ELSE hi)

\* where each syllable of an output begins and ends, what stands before it, its letters
Layout(buf, syls) ==
    the({ the({ [ n       |-> Len(syls),
                  at      |-> at,
                  delim   |-> [ j \in 1 .. Len(syls) |->
                                  slice(buf, IF j = 1 THEN 0
                                             ELSE at[j - 1] + Len(get(syls[j - 1])), at[j]) ],
                  letters |-> [ j \in 1 .. Len(syls) |->
                                  slice(buf, at[j], at[j] + Len(get(syls[j]))) ],
                  tail    |-> slice(buf, ends[2], Len(buf)) ] :
                at \in { ends[1] } }) :
          ends \in { starts(buf, syls, 1, Len(syls), 0) } })

\* the layout is that of the syllables: the letters of each are its own, in either case
Spelled(lay, syls) ==
    \A j \in 1 .. lay.n :
        /\ Len(lay.letters[j]) = Len(get(syls[j]))
        /\ \A x \in 1 .. Len(get(syls[j])) :
               to_ascii_lowercase(lay.letters[j][x]) = get(syls[j])[x]

\* no word of the layout holds more than m syllables: among any m + 1 syllables in a
\* row, one after the first has a delimiter before it
WordsAtMost(lay, m) ==
    \A j \in 1 .. lay.n - m : \E i \in j + 1 .. j + m : lay.delim[i] # << >>

Ambiguous(syls, j) == j > 1 /\ char_follows(get(syls[j])[1], get(syls[j - 1]))

\* C12 as stated: with word_len unset no break comes of the syllable count; a delimiter
\* stands before a syllable only where the ambiguity rule asks for it, however long the
\* input.
C12_AmbiguityAlone ==
    settings.word_len = None
    => \E syls \in { emitted } : \E lay \in { Layout(sentence.buffer, syls) } :
           /\ Spelled(lay, syls)
           /\ \A j \in 1 .. lay.n : lay.delim[j] # << >> => Ambiguous(syls, j)

\* C12: with word_len unset a word holds at most 255 syllables; a delimiter stands before
\* a syllable exactly where the ambiguity rule asks for it or the word before it has 255
\* syllables.
C12_AmbiguityOrFull ==
    settings.word_len = None
    => \E syls \in { emitted } : \E lay \in { Layout(sentence.buffer, syls) } :
           /\ Spelled(lay, syls)
           /\ WordsAtMost(lay, U8MAX)
           /\ \A j \in 1 .. lay.n :
                  lay.delim[j] # << >>
                  <=> \/ Ambiguous(syls, j)
                      \/ (j > U8MAX /\ \A i \in j - U8MAX + 1 .. j - 1 : lay.delim[i] = << >>)

\* word_len unset: the 256th syllable of a payload, with no ambiguity before it, begins
\* a new word
C12_Witness ==
    /\ pc = "encoded"
    /\ settings.word_len = None
    /\ Len(data) > U8MAX
    /\ \E syls \in { emitted } : \E lay \in { Layout(sentence.buffer, syls) } :
           /\ \A i \in 1 .. U8MAX : lay.delim[i] = << >>
           /\ lay.delim[U8MAX + 1] = << 32 >>
           /\ ~Ambiguous(syls, U8MAX + 1)


\* encode_mono has returned and its output stands in text, as it was returned
Returned == pc \in { "encoded", "parse", "done" } /\ edit = << >>

\* C13: an undecorated output is made of lowercase ASCII letters and spaces; a decorated
\* one may also hold commas, periods and uppercase ASCII letters; an uppercase letter is
\* the first letter of a syllable.
C13_Alphabet ==
    Returned
    => /\ \A x \in 1 .. Len(text) :
              \/ text[x] \in 97 .. 122
              \/ text[x] = 32
              \/ (settings.decorate /\ (text[x] \in { 44, 46 } \/ text[x] \in 65 .. 90))
       /\ \E syls \in { emitted } : \E lay \in { Layout(text, syls) } :
              /\ Spelled(lay, syls)
              /\ \A x \in 1 .. Len(text) :
                     text[x] \in 65 .. 90 => \E j \in 1 .. lay.n : lay.at[j] = x - 1

\* a decorated output with a comma and with an uppercase letter past its first character
C13_Witness ==
    /\ Returned
    /\ settings.decorate
    /\ settings.word_len # Some(0)
    /\ \E x \in 1 .. Len(text) : text[x] = 44
    /\ \E x \in 2 .. Len(text) : text[x] \in 65 .. 90


\* C14: running_code undoes itself at the same index, and gives at index i + 256 what it
\* gives at index i.
C14_SelfInverse ==
    /\ pc \in { "coded", "uncoded" }
       => buffer[1] = running_code(data[1], edit[2] + 256)
    /\ pc = "uncoded" => buffer[2] = data[1]

\* the byte 0xC5 of the crate's example coded and decoded at index 257, where the code
\* changes it
C14_Witness ==
    /\ pc = "uncoded"
    /\ data = << 197 >>
    /\ edit[2] = 257
    /\ buffer[1] # 197
    /\ buffer[2] = 197


\* C15: the output ends with a period exactly when decorate is on and a syllable was
\* emitted, and then a letter stands before that period; the output is empty exactly
\* when no syllable was emitted, as for empty data with the checksum disabled.
C15_TrailingPeriod ==
    LET n == Len(text)
        period == n >= 1 /\ text[n] = 46
        syllables == Len(data) + checksum_len(settings.checksum)
    IN  Returned
        => /\ period <=> (settings.decorate /\ syllables >= 1)
           /\ period => (n >= 2 /\ is_letter(text[n - 1]))
           /\ text = << >> <=> syllables = 0
           /\ (data = << >> /\ settings.checksum = "Disabled") => text = << >>

\* empty data under a one-byte checksum, decorated: one syllable and the period
C15_Witness ==
    /\ Returned
    /\ settings.decorate
    /\ data = << >>
    /\ settings.checksum = "Length1"
    /\ Len(text) >= 2
    /\ text[Len(text)] = 46


\* the payload bytes under the running code, as they are handed to push
coded(d) == [ i \in 1 .. Len(d) |-> running_code(d[i], i - 1) ]

\* the output spells the coded payload and then the first bytes of the digest
SpelledWith(digest) ==
    \E syls \in { coded(data) \o SubSeq(bytes(digest), 1, checksum_len(settings.checksum)) } :
        \E lay \in { Layout(text, syls) } : Spelled(lay, syls) /\ ~is_letter(Head(lay.tail \o << 0 >>))

\* C16 as stated: the accumulator is fed each payload byte under the running code, and
\* the checksum syllables of the output are the digest of the coded payload.
C16_CodedDigest ==
    /\ pc = "payload" => hash = fnv1a(coded(data), new)
    /\ Returned => SpelledWith(fnv1a(coded(data), new))

\* C16: the accumulator is fed each payload byte as it was given, before the running
\* code, and the checksum syllables of the output are the digest of the data itself.
C16_RawDigest ==
    /\ pc = "payload" => hash = fnv1a(data, new)
    /\ Returned => SpelledWith(fnv1a(data, new))

\* two bytes that the running code changes, encoded with a two-byte checksum
C16_Witness ==
    /\ Returned
    /\ Len(data) = 2
    /\ settings.checksum = "Length2"
    /\ \A i \in 1 .. 2 : coded(data)[i] # data[i]
    /\ SpelledWith(fnv1a(data, new))
    /\ ~SpelledWith(fnv1a(coded(data), new))


\* C17: in an output, a syllable with no delimiter before it does not begin with a letter
\* that continues the syllable before it, and the longest syllable found at the place
\* where a syllable begins is that syllable, ending where it ends.
C17_NoAmbiguity ==
    Returned
    => \E syls \in { emitted } : \E lay \in { Layout(text, syls) } :
           /\ Spelled(lay, syls)
           /\ \A j \in 2 .. lay.n : lay.delim[j] = << >> => ~Ambiguous(syls, j)
           /\ \A j \in 1 .. lay.n :
                  longest_prefix_of(SubSeq(text, lay.at[j] + 1, Len(text)))
                      = Some(<< syls[j], Len(get(syls[j])) >>)

\* an output with two syllables in one word and a break made by the ambiguity rule
C17_Witness ==
    /\ Returned
    /\ settings.word_len = None
    /\ \E syls \in { emitted } : \E lay \in { Layout(text, syls) } :
           /\ \E j \in 2 .. lay.n : lay.delim[j] = << >>
           /\ \E j \in 2 .. lay.n : lay.delim[j] # << >> /\ Ambiguous(syls, j)


\* the letters of a text, in lowercase: the text as a row of syllables
letters(str) ==
    [ x \in 1 .. Len(SelectSeq(str, is_letter)) |->
        to_ascii_lowercase(SelectSeq(str, is_letter)[x]) ]

\* C18 as stated: an encode of the same data under the same checksum mode and any
\* word_len and decorate emits the same syllables, and decode gives on its output what
\* it gives on this one.
C18_SettingsBlind ==
    (pc = "done" /\ edit = << >>)
    => \A s \in SettingsSet :
           s.checksum = settings.checksum
           => \E other \in { encode_mono(data, s) } :
                  /\ letters(other) = letters(text)
                  /\ decode_mono(other, checksum) = result

\* C18: an encode of the same data under the same checksum mode and any word_len and
\* decorate emits the same syllables; decode gives on its output what it gives on this
\* one, provided neither word_len is Some(0).
C18_SettingsBlindWordLen ==
    (pc = "done" /\ edit = << >>)
    => \A s \in SettingsSet :
           s.checksum = settings.checksum
           => \E other \in { encode_mono(data, s) } :
                  /\ letters(other) = letters(text)
                  /\ (s.word_len # Some(0) /\ settings.word_len # Some(0))
                     => decode_mono(other, checksum) = result

\* two bytes encoded one syllable a word with decoration, decoded to the data, where the
\* default word length and no decoration give another text
C18_Witness ==
    /\ pc = "done"
    /\ edit = << >>
    /\ settings.word_len = Some(1)
    /\ settings.decorate
    /\ Len(data) = 2
    /\ result = Ok(data)
    /\ encode_mono(data, [ settings EXCEPT !.word_len = Some(3), !.decorate = FALSE ]) # text


\* the bytes encode_mono has fed to its accumulator so far: the data, then the checksum
\* bytes pushed
fed == data \o SubSeq(bytes(fnv1a(data, new)), 1, pushed_checksum)

\* the number of set bits of the accumulator handed to push with the j-th syllable
seed_ones(bs, j) ==
    the({ PopCount(h[1]) + PopCount(h[2]) : h \in { fnv1a(SubSeq(bs, 1, j), new) } })

\* C19: a delimiter before a syllable is ". " with the syllable capitalised where decorate
\* is on and the accumulator handed over with it has more than 19 bits set, ", " where
\* decorate is on and fewer than 14 are set, and a space otherwise; a syllable with no
\* delimiter before it is capitalised only as the first of a decorated output; so an
\* uppercase letter stands first in the output or right after ". ".
C19_Delimiters ==
    \E syls \in { emitted } : \E bs \in { fed } : \E lay \in { Layout(sentence.buffer, syls) } :
        /\ Spelled(lay, syls)
        /\ \A j \in 1 .. lay.n :
               \E s \in { seed_ones(bs, j) } : \E up \in { lay.letters[j][1] \in 65 .. 90 } :
                   IF lay.delim[j] = << >> THEN up <=> (sentence.decorate /\ j = 1)
                   ELSE IF sentence.decorate /\ s > 19 THEN lay.delim[j] = << 46, 32 >> /\ up
                   ELSE IF sentence.decorate /\ s < 14 THEN lay.delim[j] = << 44, 32 >> /\ ~up
                   ELSE lay.delim[j] = << 32 >> /\ ~up
        /\ \A x \in 1 .. Len(sentence.buffer) :
               sentence.buffer[x] \in 65 .. 90
               => \/ x = 1
                  \/ (x >= 3 /\ sentence.buffer[x - 2] = 46 /\ sentence.buffer[x - 1] = 32)

\* a decorated output with a period and a capital, a comma, and a plain space between its
\* syllables
C19_Witness ==
    /\ pc = "encoded"
    /\ settings.decorate
    /\ settings.word_len # Some(0)
    /\ \E x \in 3 .. Len(text) : text[x] \in 65 .. 90 /\ text[x - 2] = 46
    /\ \E x \in 2 .. Len(text) - 1 : text[x] = 44 /\ text[x + 1] = 32
    /\ \E x \in 2 .. Len(text) - 1 : is_letter(text[x - 1]) /\ text[x] = 32


\* C20: the checksum syllables of the output are, with no running code, the first k
\* bytes of the accumulator as it stood after the last payload byte, whatever is fed to
\* the accumulator afterwards; and decode undoes the running code on the first n - k
\* bytes it parsed and compares the last k as they are.
C20_ChecksumRaw ==
    \E digest \in { bytes(fnv1a(data, new)) } :
        /\ pc = "checksum"
           => checksum_bytes
                  = SubSeq(digest, pushed_checksum + 1, checksum_len(settings.checksum))
        /\ pc # "payload"
           => \E syls \in { coded(data) \o SubSeq(digest, 1, pushed_checksum) } :
                  \E lay \in { Layout(sentence.buffer, syls) } :
                      Spelled(lay, syls) /\ lay.tail = << >>
        /\ (pc = "done" /\ string = << >> /\ result[1] = "Ok")
           => \E n \in { Len(buffer) } : \E k \in { checksum_len(checksum) } :
                  /\ Len(result[2]) = n - k
                  /\ \A i \in 1 .. n - k : result[2][i] = running_code(buffer[i], i - 1)
                  /\ \A j \in 1 .. k : buffer[n - k + j] = bytes(fnv1a(result[2], new))[j]
        /\ (pc = "done" /\ settings.word_len # Some(0))
           => /\ buffer = coded(data) \o SubSeq(digest, 1, checksum_len(checksum))
              /\ result = Ok(data)

\* two bytes under a four-byte checksum, round trip: the accumulator has moved on from
\* the digest, and the running code would have changed every checksum byte
C20_Witness ==
    /\ pc = "done"
    /\ settings.checksum = "Length4"
    /\ Len(data) = 2
    /\ result = Ok(data)
    /\ hash # fnv1a(data, new)
    /\ \A j \in 1 .. 4 : running_code(buffer[2 + j], 2 + j - 1) # buffer[2 + j]


\* the node reached from the root over the first n characters of str, if there is one
path(str, n) == try_fold_child(Some(root), SubSeq(str, 1, n))

\* how many characters of str, from its start, are transitions one after another
stop(str) == CHOOSE n \in 0 .. Len(str) :
    /\ path(str, n) # None
    /\ n < Len(str) => path(str, n + 1) = None

\* C21: longest_prefix_of gives the value of the node where the walk stops, at the first
\* character that is no transition or at the end of the text, and nothing when that node
\* has no value, whatever shorter prefix is a syllable; decode fails with Syllable exactly
\* where the node under the cursor's walk has no value.
C21_NoBacktrack ==
    /\ (pc = "parse" /\ string # << >>)
       => \E n \in { stop(string) } : \E s \in { syllable(path(string, n)[1]) } :
              longest_prefix_of(string) = IF s = None THEN None ELSE Some(<< s[1], n >>)
    /\ pc = "done"
       => (result = Err("Syllable")
           <=> (string # << >> /\ syllable(path(string, stop(string))[1]) = None))

\* "ou" under the cursor: "o" is a syllable, the walk goes on to "ou", which is none
C21_Witness ==
    /\ pc = "done"
    /\ result = Err("Syllable")
    /\ Len(string) >= 2
    /\ stop(string) >= 2
    /\ \E n \in 1 .. stop(string) - 1 : syllable(path(string, n)[1]) # None


\* an ASCII letter in its other case, any other character as it is
swap_case(c) == IF c \in 65 .. 90 THEN c + 32 ELSE IF c \in 97 .. 122 THEN c - 32 ELSE c

\* str with the characters at the places of set swapped to their other case
recase(str, set) == [ i \in 1 .. Len(str) |-> IF i \in set THEN swap_case(str[i]) ELSE str[i] ]

\* C22: decode is case-insensitive: the text with the case of any of its ASCII letters
\* changed decodes to the result the text decodes to.
C22_CaseInsensitive ==
    pc = "done"
    => \A set \in SUBSET { i \in 1 .. Len(text) : is_letter(text[i]) } :
           decode_mono(recase(text, set), checksum) = result

\* a text of syllables decoded to bytes, and so decoded with a letter in upper case
C22_Witness ==
    /\ pc = "done"
    /\ result[1] = "Ok"
    /\ Len(result[2]) >= 2
    /\ \E i \in 1 .. Len(text) :
           /\ text[i] \in 97 .. 122
           /\ recase(text, {i})[i] = text[i] - 32
           /\ decode_mono(recase(text, {i}), checksum) = result


\* C23: under every Settings value, word_len = Some(0) among them, a delimiter stands
\* between two syllables only: the buffer of the sentence, and the output returned, begin
\* with a letter of a syllable when they are not empty.
C23_DelimiterBetween ==
    /\ sentence.buffer # << >> => is_letter(sentence.buffer[1])
    /\ (Returned /\ text # << >>) => is_letter(text[1])


\* C24: after every push, previous holds the syllable just appended and word_len lies in
\* 1 .. max(1, max_word); before the first push word_len is 0; the counter never passes
\* 255, the largest value its 8 bits hold, so the increment never overflows.
C24_Counter ==
    /\ sentence.word_len \in 0 .. U8MAX
    /\ \E syls \in { emitted } :
           IF syls = << >>
           THEN sentence.previous = None /\ sentence.word_len = 0
           ELSE /\ sentence.previous = Some(get(syls[Len(syls)]))
                /\ sentence.word_len >= 1
                /\ sentence.word_len <= IF sentence.max_word > 1 THEN sentence.max_word ELSE 1

\* word_len unset: 255 syllables "u" stand in one word and the 256th, "u" again, has
\* begun the next word
C24_Witness ==
    /\ settings.word_len = None
    /\ sentence.max_word = U8MAX
    /\ Len(data) = U8MAX + 1
    /\ pc = "payload"
    /\ running_code(data[U8MAX], U8MAX - 1) = RunSyllable
    /\ running_code(data[U8MAX + 1], U8MAX) = RunSyllable
    /\ sentence.word_len = 1


\* C25: decode terminates on every text: a syllable found at the cursor takes at least one
\* character and only ASCII letters, so that the cursor moves by as many bytes as
\* characters and the slice after the syllable is taken at a character boundary; each turn
\* of the loop leaves a strictly shorter string or returns, so that a text of n characters
\* takes at most n turns.
C25_Terminates ==
    [][ (pc = "parse" /\ string # << >>)
        => /\ \E found \in { longest_prefix_of(string) } :
                  found # None
                  => /\ found[1][2] \in 1 .. Len(string)
                     /\ \A i \in 1 .. found[1][2] : is_letter(string[i])
                     /\ slice_from(string, found[1][2])
                            = Some(SubSeq(string, found[1][2] + 1, Len(string)))
           /\ pc' \in { "parse", "done" }
           /\ pc' = "parse" => Len(string') < Len(string)
           /\ pc' = "done" => result' # << "Panic", "slice" >> ]_vars

\* a turn has taken a syllable and skipped a character of more than one byte, and the
\* string is not yet consumed
C25_Witness ==
    /\ pc = "parse"
    /\ buffer # << >>
    /\ string # << >>
    /\ Len(string) < Len(text)
    /\ \E i \in 1 .. Len(text) - Len(string) : text[i] > 127


\* C26: a text that is not empty and does not begin with an ASCII letter decodes to
\* Err(Syllable) under every checksum setting; characters that are not letters after the
\* last syllable are ignored: the text decodes as it does without them.
C26_LeadingNonLetter ==
    pc = "done"
    => /\ (text # << >> /\ ~is_letter(text[1])) => result = Err("Syllable")
       /\ \A k \in 1 .. Len(text) :
              (\A i \in k + 1 .. Len(text) : ~is_alphabetic(text[i]))
              => decode_mono(SubSeq(text, 1, k), checksum) = result

\* a character that is no letter before a syllable and another after it: the text fails
\* with Syllable, and decodes without its first character
C26_Witness ==
    /\ pc = "done"
    /\ Len(text) >= 3
    /\ ~is_letter(text[1])
    /\ is_letter(text[2])
    /\ ~is_alphabetic(text[Len(text)])
    /\ result = Err("Syllable")
    /\ decode_mono(Tail(text), checksum)[1] = "Ok"
    /\ decode_mono(Tail(text), checksum) = decode_mono(SubSeq(text, 2, Len(text) - 1), checksum)

=============================================================================
